---- MODULE Spec2Model ----
(***************************************************************************)
(* Side-panel summarizer: the getSummary orchestrator of the useAISummary  *)
(* hook (two-layer cache, settings, content fetch, provider call,          *)
(* write-through) and the App handlers that call it and display its        *)
(* result.                                                                 *)
(*                                                                         *)
(* JavaScript is single threaded: every action below is one run-to-        *)
(* completion segment of a handler, from the event (or the reply to an     *)
(* await) that starts it to the next await.  A request to chrome.storage   *)
(* takes effect when it is issued and its reply is delivered later, in     *)
(* issue order (storageQ); replies of the content fetch and of the         *)
(* provider arrive in any order.  null, undefined and '' are all falsy in  *)
(* the conditions of the code and are all written "" here.                 *)
(***************************************************************************)
EXTENDS Integers, Sequences, FiniteSets, Bags, TLC

\* Number of handler invocations (UI events that call getSummary or
\* handleTabChange) in one behaviour.
MaxRequests == 2

\* rawText.slice(0, 100) in the selection cache key.
SliceLen == 100

URLs == {"u1", "u2"}
Texts == {"t1"}
Modes == {"page", "selection", "link"}
\* What the settings form saves: a provider id and the key typed.
SaveChoices == {[aiProvider |-> "chrome-builtin", apiKey |-> ""],
                [aiProvider |-> "claude", apiKey |-> ""],
                [aiProvider |-> "claude", apiKey |-> "k1"]}
Versions == {"v1", "v2"}

VARIABLES
    summaries,       \* useState(new Map()): the in-process cache
    loadingSummary,  \* useState(null): url being summarized, "" for null
    summaryCache,    \* chrome.storage.local summaryCache: the durable cache
    settings,        \* chrome.storage.local aiProvider / apiKey
    currentTab,      \* App state
    summary,         \* App state: displayed result or Null
    error,           \* App state: displayed error, "" for null
    isFirstLoad,     \* App state
    nreq,            \* handler invocations so far
    storageQ,        \* handlers awaiting a chrome.storage reply, oldest
                     \* first: the position and locals of each
    pending,         \* handlers awaiting the content fetch or the provider
                     \* (a bag: their replies come in any order)
    activeTabPending,\* GET_ACTIVE_TAB sent, reply not yet handled: sent on
                     \* mount, and again whenever setSummaries gives the
                     \* hook a new Map, as the effect that sends it has
                     \* handleTabChange and handleContextMenuSummarize,
                     \* which change with the Map, as dependencies
    completed,       \* the getSummary call that returned in the last step,
                     \* as it was at its return; NoCall after any other step
    chatMessages,    \* App state: the transcript, oldest turn first
    pageContent,     \* App state: the chat context, "" for null
    chatLoading,     \* hook state: a chat message is being answered
    chatPending,     \* the handleSendChat awaiting sendChatMessage, or NoSend
    contentPending,  \* FETCH_PAGE_CONTENT requests of handleSummarize whose
                     \* callback has not run (a bag of urls)
    nchat,           \* chat messages sent so far
    reply,           \* parseAIResponse: the text it is called with
    normalized,      \* parseAIResponse: what the call gave
    extraction,      \* fetchPageContent of the background worker for a
                     \* video URL: position, locals and outcome
    builtin,         \* callChromeBuiltInAI: position, locals, the sessions
                     \* created and what was done with them
    probe,           \* extractTranscriptFromPage in a video page: position,
                     \* locals, the page's elements and the result
    notifier         \* the tab-change notifier of the background worker:
                     \* currentTabUrl, the browser's tabs, the handlers
                     \* awaiting their tab query and the messages sent

\* The panel (App and the hook), and the functions it calls, which are
\* followed one call at a time in specifications of their own.
chat == <<chatMessages, pageContent, chatLoading, chatPending,
          contentPending, nchat>>
panel == <<summaries, loadingSummary, summaryCache, settings, currentTab,
           summary, error, isFirstLoad, nreq, storageQ, pending,
           activeTabPending, completed, chat>>
callees == <<reply, normalized, extraction, builtin, probe, notifier>>

vars == <<summaries, loadingSummary, summaryCache, settings, currentTab,
          summary, error, isFirstLoad, nreq, storageQ, pending,
          activeTabPending, completed, chatMessages, pageContent,
          chatLoading, chatPending, contentPending, nchat, reply, normalized,
          extraction, builtin, probe, notifier>>

-----------------------------------------------------------------------------
(* Values *)

Null == [null |-> TRUE]
Undefined == <<"undefined">>
EmptyMap == [k \in {} |-> Null]

\* currentTab: its url and isSelection; title, id and isLink only reach the
\* rendering.
NoTab == [url |-> "", isSelection |-> FALSE]
Tab(u, sel) == [url |-> u, isSelection |-> sel]

\* { error: message }
ErrorResult(msg) == [bullets |-> Undefined, error |-> msg]

\* result?.error
IsError(r) == r # Null /\ r.error # ""

\* new Map(prev).set(k, v) and cache[k] = v
MapSet(m, k, v) == [x \in DOMAIN m \cup {k} |-> IF x = k THEN v ELSE m[x]]

\* Mutant: a lookup that reads nothing.
MutOnly(m, k) == EmptyMap

\* What a lookup reads of the object storage returns: stored.summaryCache?.[k]
Only(m, k) == [x \in DOMAIN m \cap {k} |-> m[x]]

\* What the cache lookup of getSummary finds for key k: the in-process
\* entry if there is one, else the durable one, else nothing.
Lookup(mem, dur, k) ==
    IF k \in DOMAIN mem THEN mem[k]
    ELSE IF k \in DOMAIN dur THEN dur[k]
    ELSE Null

Slice(s, n) == IF Len(s) <= n THEN s ELSE SubSeq(s, 1, n)

cacheKey(url, rawText) ==
    IF rawText # "" THEN "selection:" \o url \o ":" \o Slice(rawText, SliceLen)
    ELSE url

\* Mutant: the refresh flag read the wrong way round.
MutCacheLookupAllowed(forceRefresh, rawText) == forceRefresh /\ rawText = ""

\* if (!forceRefresh && !rawText)
CacheLookupAllowed(forceRefresh, rawText) == ~forceRefresh /\ rawText = ""

\* settings.aiProvider || 'chrome-builtin'
ProviderOf(s) == IF s.aiProvider = "" THEN "chrome-builtin" ELSE s.aiProvider

\* Mutant: the test for the key inverted.
MutMissingCredential(s) == ProviderOf(s) # "chrome-builtin" /\ s.apiKey # ""

\* provider !== 'chrome-builtin' && !settings.apiKey
MissingCredential(s) == ProviderOf(s) # "chrome-builtin" /\ s.apiKey = ""

\* Mutant: the write-through done for selections too.
MutShouldPersist(rawText) == TRUE

\* if (!rawText) before the write to chrome.storage
ShouldPersist(rawText) == rawText = ""

\* The text the background worker extracts for a page.
PageText(u) == "text:" \o u

\* fetchPageContent of the hook: response.content, or null on response.error
\* or a failed sendMessage; an empty content is falsy like null.
FetchOutcomes(u) == {PageText(u), ""}

\* What a provider call (request, response, parseAIResponse) can give:
\* a thrown Error, or the object parseAIResponse returns, which is the parsed
\* JSON object itself and so carries whatever other fields the reply had.
ProviderThrows(provider) ==
    {IF provider = "chrome-builtin" THEN "Chrome Built-in AI not available"
                                    ELSE "API error: 500",
     "Could not parse AI response"}

ProviderValues(content) ==
    {[bullets |-> <<content, v>>, error |-> ""] : v \in Versions}
    \cup {[bullets |-> <<content, "v1">>, error |-> "reply error field"]}

StorageError == "storage failure"

NoSettings == [aiProvider |-> "", apiKey |-> ""]

\* chrome.storage outlives the panel: what earlier sessions left in
\* summaryCache when the panel opens.
StoredBefore ==
    {EmptyMap, [k \in {"u1"} |-> [bullets |-> <<PageText("u1"), "v1">>,
                                  error |-> ""]]}

\* The position (pc) and the locals of one handler invocation; the last five
\* fields record what the call found and did, for the properties below.
IdleTask ==
    [handler |-> "none", pc |-> "idle", exit |-> "", url |-> "",
     forceRefresh |-> FALSE, rawText |-> "", stored |-> EmptyMap,
     ioOk |-> TRUE, settings |-> NoSettings, content |-> "",
     result |-> Null, retval |-> Null, hitEntry |-> Null,
     enteredSlow |-> FALSE, calledProvider |-> FALSE,
     wroteMem |-> FALSE, wroteDur |-> FALSE]

NoCall == IdleTask

\* useEffect on mount: chrome.storage.local.get(['summaryCache'], callback)
MountWaiter(cache) ==
    [IdleTask EXCEPT !.handler = "mount", !.pc = "mountLoad", !.stored = cache]

\* No call of parseAIResponse, of the background fetchPageContent, of
\* callChromeBuiltInAI or of extractTranscriptFromPage is being followed,
\* and the notifier is left aside.
NoReply == [kind |-> "none", text |-> ""]
NotCalled == [outcome |-> "none"]
NoExtraction == [pc |-> "idle"]
NoBuiltIn == [pc |-> "idle"]
NoProbe == [pc |-> "idle"]
NoNotifier == [pc |-> "idle"]

\* No handleSendChat is waiting for its answer.
NoSend == [pc |-> "idle"]

\* useState([]), useState(null), and nothing in flight.
ChatInit ==
    /\ chatMessages = <<>>
    /\ pageContent = ""
    /\ chatLoading = FALSE
    /\ chatPending = NoSend
    /\ contentPending = EmptyBag
    /\ nchat = 0

PanelInit ==
    /\ summaries = EmptyMap
    /\ loadingSummary = ""
    /\ summaryCache \in StoredBefore
    /\ settings = NoSettings
    /\ currentTab = NoTab
    /\ summary = Null
    /\ error = ""
    /\ isFirstLoad = TRUE
    /\ nreq = 0
    /\ storageQ = <<MountWaiter(summaryCache)>>
    /\ pending = EmptyBag
    /\ activeTabPending = TRUE
    /\ completed = NoCall
    /\ ChatInit

CalleesIdle ==
    /\ reply = NoReply
    /\ normalized = NotCalled
    /\ extraction = NoExtraction
    /\ builtin = NoBuiltIn
    /\ probe = NoProbe
    /\ notifier = NoNotifier

Init == PanelInit /\ CalleesIdle

-----------------------------------------------------------------------------
(* getSummary *)

\* The slow path of getSummary, from setLoadingSummary(url) to the return.
SlowPcs == {"settings", "fetch", "provider", "persistRead", "persistWrite"}

Await(task) == pending (+) SetToBag({task})
Resumed(task) == pending (-) SetToBag({task})

Done(task, exit, ret) ==
    [task EXCEPT !.pc = "done", !.exit = exit, !.retval = ret,
                 !.stored = EmptyMap]

\* An await outside any try whose promise rejects: the async function
\* rejects, and so does its caller, which awaits it without a catch.
Rejected(task) ==
    [Done(task, "rejected", Null) EXCEPT !.pc = "rejected"]

\* The caller's continuation after "await getSummary(...)": handleSummarize
\* clears the summary on an error, handleContextMenuSummarize does not.
Display(handler, ret, errBefore, sumBefore) ==
    /\ error' = IF IsError(ret) THEN ret.error ELSE errBefore
    /\ summary' = IF IsError(ret)
                  THEN (IF handler = "summarize" THEN Null ELSE sumBefore)
                  ELSE ret

\* setLoadingSummary(url); try { settings = await storage.get(...)
EnterSlow(task) ==
    [task EXCEPT !.pc = "settings", !.settings = settings,
                 !.enteredSlow = TRUE, !.stored = EmptyMap]

\* A return from inside try: finally { setLoadingSummary(null) }, then the
\* caller's continuation.
Return(task, exit, ret) ==
    /\ Display(task.handler, ret, error, summary)
    /\ loadingSummary' = ""
    /\ completed' = Done(task, exit, ret)

\* catch (error) { return { error: error.message || ... } }
Catch(task, msg) ==
    Return(task, "catch",
           ErrorResult(IF msg # "" THEN msg ELSE "Failed to generate summary."))

\* getSummary from its first line to its first await (or its return from
\* the in-process cache), called by handler h.
StartGetSummary(h, url, forceRefresh, rawText, errBefore, sumBefore) ==
    LET key == cacheKey(url, rawText)
        hit == Lookup(summaries, summaryCache, key)
        base == [IdleTask EXCEPT !.handler = h, !.url = url,
                                 !.forceRefresh = forceRefresh,
                                 !.rawText = rawText, !.hitEntry = hit]
    IN  /\ UNCHANGED <<summaries, summaryCache, pending>>
        /\ IF CacheLookupAllowed(forceRefresh, rawText)
           THEN IF key \in DOMAIN summaries
                THEN /\ Display(h, summaries[key], errBefore, sumBefore)
                     /\ UNCHANGED <<loadingSummary, storageQ>>
                     /\ completed' = Done(base, "memory-hit", summaries[key])
                ELSE /\ storageQ' = Append(storageQ,
                                      [base EXCEPT !.pc = "lookup",
                                          !.stored = Only(summaryCache, key)])
                     /\ error' = errBefore
                     /\ summary' = sumBefore
                     /\ UNCHANGED loadingSummary
                     /\ completed' = NoCall
           ELSE /\ storageQ' = Append(storageQ, EnterSlow(base))
                /\ error' = errBefore
                /\ summary' = sumBefore
                /\ loadingSummary' = url
                /\ completed' = NoCall

\* Reply to "stored = await chrome.storage.local.get(['summaryCache'])" of
\* the cache lookup, which is outside the try block.
LookupResume ==
    /\ storageQ # <<>> /\ Head(storageQ).pc = "lookup"
    /\ UNCHANGED callees
    /\ UNCHANGED <<summaryCache, settings, currentTab, isFirstLoad, nreq,
                   pending>>
    /\ LET task == Head(storageQ)
           key == cacheKey(task.url, task.rawText)
       IN \E ok \in BOOLEAN :
            IF ~ok
            THEN /\ storageQ' = Tail(storageQ)
                 /\ completed' = Rejected(task)
                 /\ UNCHANGED <<summaries, loadingSummary, summary, error,
                                activeTabPending>>
            ELSE IF key \in DOMAIN task.stored
            THEN /\ summaries' = MapSet(summaries, key, task.stored[key])
                 /\ activeTabPending' = TRUE
                 /\ Display(task.handler, task.stored[key], error, summary)
                 /\ storageQ' = Tail(storageQ)
                 /\ completed' = Done(task, "durable-hit", task.stored[key])
                 /\ UNCHANGED loadingSummary
            ELSE /\ storageQ' = Append(Tail(storageQ), EnterSlow(task))
                 /\ loadingSummary' = task.url
                 /\ completed' = NoCall
                 /\ UNCHANGED <<summaries, summary, error, activeTabPending>>

\* Reply to the settings read: credential check, then the content.
SettingsResume ==
    /\ storageQ # <<>> /\ Head(storageQ).pc = "settings"
    /\ UNCHANGED callees
    /\ storageQ' = Tail(storageQ)
    /\ UNCHANGED <<summaries, summaryCache, settings, currentTab, isFirstLoad,
                   nreq, activeTabPending>>
    /\ LET task == Head(storageQ)
       IN \E ok \in BOOLEAN :
            IF ~ok THEN Catch(task, StorageError) /\ UNCHANGED pending
            ELSE IF MissingCredential(task.settings)
            THEN /\ Return(task, "no-credential",
                      ErrorResult("Please configure your API key in settings."))
                 /\ UNCHANGED pending
            ELSE IF task.rawText # ""
            THEN /\ pending' = Await([task EXCEPT !.pc = "provider",
                                                  !.content = task.rawText,
                                                  !.calledProvider = TRUE])
                 /\ completed' = NoCall
                 /\ UNCHANGED <<loadingSummary, summary, error>>
            ELSE /\ pending' = Await([task EXCEPT !.pc = "fetch"])
                 /\ completed' = NoCall
                 /\ UNCHANGED <<loadingSummary, summary, error>>

\* Reply to "content = await fetchPageContent(url)".
FetchResume(task) ==
    /\ task.pc = "fetch"
    /\ UNCHANGED callees
    /\ UNCHANGED <<summaries, summaryCache, settings, currentTab, isFirstLoad,
                   nreq, activeTabPending, storageQ>>
    /\ \E c \in FetchOutcomes(task.url) :
         IF c = ""
         THEN /\ Return(task, "no-content",
                        ErrorResult("Could not fetch article content."))
              /\ pending' = Resumed(task)
         ELSE /\ pending' = Resumed(task) (+)
                            SetToBag({[task EXCEPT !.pc = "provider",
                                                   !.content = c,
                                                   !.calledProvider = TRUE]})
              /\ completed' = NoCall
              /\ UNCHANGED <<loadingSummary, summary, error>>

\* The provider call threw: caught at the boundary.
ProviderThrow(task) ==
    /\ task.pc = "provider"
    /\ UNCHANGED callees
    /\ pending' = Resumed(task)
    /\ UNCHANGED <<summaries, summaryCache, settings, currentTab, isFirstLoad,
                   nreq, activeTabPending, storageQ>>
    /\ \E msg \in ProviderThrows(ProviderOf(task.settings)) : Catch(task, msg)

\* The provider call returned: cache in memory, then persist unless this
\* was a selection.
ProviderResume(task) ==
    /\ task.pc = "provider"
    /\ UNCHANGED callees
    /\ pending' = Resumed(task)
    /\ UNCHANGED <<summaryCache, settings, currentTab, isFirstLoad, nreq>>
    /\ activeTabPending' = TRUE
    /\ LET key == cacheKey(task.url, task.rawText)
       IN \E r \in ProviderValues(task.content) :
            /\ summaries' = MapSet(summaries, key, r)
            /\ IF ShouldPersist(task.rawText)
               THEN /\ storageQ' = Append(storageQ,
                                     [task EXCEPT !.pc = "persistRead",
                                                  !.result = r,
                                                  !.wroteMem = TRUE,
                                                  !.stored = summaryCache])
                    /\ completed' = NoCall
                    /\ UNCHANGED <<loadingSummary, summary, error>>
               ELSE /\ Return([task EXCEPT !.wroteMem = TRUE], "ok", r)
                    /\ UNCHANGED storageQ

\* Reply to the summaryCache read of the write-through: cache[cacheKey] =
\* result, then storage.set of the whole object read.
PersistReadResume ==
    /\ storageQ # <<>> /\ Head(storageQ).pc = "persistRead"
    /\ UNCHANGED callees
    /\ UNCHANGED <<summaries, settings, currentTab, isFirstLoad, nreq,
                   pending, activeTabPending>>
    /\ LET task == Head(storageQ)
           key == cacheKey(task.url, task.rawText)
       IN \E ok \in BOOLEAN, wok \in BOOLEAN :
            IF ~ok
            THEN /\ wok
                 /\ Catch(task, StorageError)
                 /\ storageQ' = Tail(storageQ)
                 /\ UNCHANGED summaryCache
            ELSE /\ summaryCache' =
                      IF wok THEN MapSet(task.stored, key, task.result)
                      ELSE summaryCache
                 /\ storageQ' = Append(Tail(storageQ),
                                  [task EXCEPT !.pc = "persistWrite",
                                               !.ioOk = wok,
                                               !.wroteDur = wok,
                                               !.stored = EmptyMap])
                 /\ completed' = NoCall
                 /\ UNCHANGED <<loadingSummary, summary, error>>

\* Reply to "await chrome.storage.local.set(...)": return result.
PersistWriteResume ==
    /\ storageQ # <<>> /\ Head(storageQ).pc = "persistWrite"
    /\ UNCHANGED callees
    /\ storageQ' = Tail(storageQ)
    /\ UNCHANGED <<summaries, summaryCache, settings, currentTab, isFirstLoad,
                   nreq, pending, activeTabPending>>
    /\ LET task == Head(storageQ)
       IN IF task.ioOk THEN Return(task, "ok", task.result)
          ELSE Catch(task, StorageError)

-----------------------------------------------------------------------------
(* App *)

\* const showError = error && !loadingSummary, and the other three.
showLoading == loadingSummary # ""
showError == error # "" /\ loadingSummary = ""
showSummary == summary # Null /\ loadingSummary = "" /\ error = ""
showSummarizeButton ==
    currentTab # NoTab /\ summary = Null /\ loadingSummary = "" /\ error = ""

\* handleSummarize(forceRefresh) of the render whose currentTab is tab, up
\* to its await.
handleSummarize(tab, forceRefresh) ==
    /\ tab.url # ""
    /\ StartGetSummary("summarize", tab.url, forceRefresh, "", "", summary)

\* Reply to GET_ACTIVE_TAB, then the auto-summarize effect of the render
\* that follows setCurrentTab.
GetActiveTabResponse ==
    /\ activeTabPending
    /\ UNCHANGED callees
    /\ activeTabPending' = FALSE
    /\ UNCHANGED <<settings, isFirstLoad>>
    /\ \E u \in URLs \cup {""} :
         IF u = ""
         THEN /\ error' = "Could not get current tab"
              /\ completed' = NoCall
              /\ UNCHANGED <<summaries, loadingSummary, summaryCache,
                             currentTab, summary, nreq, storageQ, pending>>
         ELSE /\ currentTab' = Tab(u, FALSE)
              /\ IF isFirstLoad /\ summary = Null /\ loadingSummary = ""
                 THEN /\ nreq < MaxRequests
                      /\ nreq' = nreq + 1
                      /\ handleSummarize(Tab(u, FALSE), FALSE)
                 ELSE /\ completed' = NoCall
                      /\ UNCHANGED <<summaries, loadingSummary, summaryCache,
                                     summary, error, nreq, storageQ, pending>>

\* TAB_CHANGED message: setIsFirstLoad(false), handleTabChange(tab) up to
\* the await inside checkCachedSummary (or through it on a memory hit).
TabChanged(u) ==
    /\ nreq < MaxRequests
    /\ UNCHANGED callees
    /\ nreq' = nreq + 1
    /\ isFirstLoad' = FALSE
    /\ currentTab' = Tab(u, FALSE)
    /\ error' = ""
    /\ completed' = NoCall
    /\ UNCHANGED <<summaries, loadingSummary, summaryCache, settings,
                   pending, activeTabPending>>
    /\ IF u \in DOMAIN summaries
       THEN /\ summary' = summaries[u]
            /\ UNCHANGED storageQ
       ELSE /\ storageQ' = Append(storageQ,
                             [IdleTask EXCEPT !.handler = "tabchange",
                                              !.url = u,
                                              !.pc = "tcLookup",
                                              !.stored = Only(summaryCache, u)])
            /\ UNCHANGED summary

\* Reply to the storage read of checkCachedSummary: setSummary(cached) or
\* setSummary(null).
TabChangeResume ==
    /\ storageQ # <<>> /\ Head(storageQ).pc = "tcLookup"
    /\ UNCHANGED callees
    /\ storageQ' = Tail(storageQ)
    /\ completed' = NoCall
    /\ UNCHANGED <<summaries, loadingSummary, summaryCache, settings,
                   currentTab, error, isFirstLoad, nreq, pending,
                   activeTabPending>>
    /\ LET task == Head(storageQ)
       IN \E ok \in BOOLEAN :
            IF ~ok THEN UNCHANGED summary
            ELSE summary' = IF task.url \in DOMAIN task.stored
                            THEN task.stored[task.url] ELSE Null

\* CONTEXT_MENU_SUMMARIZE message, up to the await of getSummary.
handleContextMenuSummarize(mode, u, text) ==
    /\ nreq < MaxRequests
    /\ UNCHANGED callees
    /\ nreq' = nreq + 1
    /\ isFirstLoad' = FALSE
    /\ currentTab' = Tab(u, mode = "selection")
    /\ UNCHANGED <<settings, activeTabPending>>
    /\ StartGetSummary("context", u, TRUE,
                       IF mode = "selection" THEN text ELSE "", "", Null)

\* The three buttons; each is rendered only in its state of the panel.
ClickTryAgain ==
    /\ showError
    /\ UNCHANGED callees
    /\ nreq < MaxRequests
    /\ nreq' = nreq + 1
    /\ UNCHANGED <<settings, currentTab, isFirstLoad, activeTabPending>>
    /\ handleSummarize(currentTab, TRUE)

ClickBulletify ==
    /\ showSummarizeButton
    /\ UNCHANGED callees
    /\ nreq < MaxRequests
    /\ nreq' = nreq + 1
    /\ UNCHANGED <<settings, currentTab, isFirstLoad, activeTabPending>>
    /\ handleSummarize(currentTab, FALSE)

ClickRegenerate ==
    /\ showSummary
    /\ UNCHANGED callees
    /\ nreq < MaxRequests
    /\ nreq' = nreq + 1
    /\ UNCHANGED <<settings, currentTab, isFirstLoad, activeTabPending>>
    /\ handleSummarize(currentTab, TRUE)

\* SettingsModal handleSave.
handleSave(s) ==
    /\ nreq < MaxRequests
    /\ UNCHANGED callees
    /\ nreq' = nreq + 1
    /\ settings' = s
    /\ completed' = NoCall
    /\ UNCHANGED <<summaries, loadingSummary, summaryCache, currentTab,
                   summary, error, isFirstLoad, storageQ, pending,
                   activeTabPending>>

\* The callback of the storage read issued when the hook mounts:
\* setSummaries(new Map(Object.entries(result.summaryCache))).
MountLoadResume ==
    /\ storageQ # <<>> /\ Head(storageQ).pc = "mountLoad"
    /\ UNCHANGED callees
    /\ storageQ' = Tail(storageQ)
    /\ summaries' = IF DOMAIN Head(storageQ).stored # {}
                    THEN Head(storageQ).stored ELSE summaries
    /\ completed' = NoCall
    /\ activeTabPending' =
          IF DOMAIN Head(storageQ).stored # {} THEN TRUE ELSE activeTabPending
    /\ UNCHANGED <<loadingSummary, summaryCache, settings, currentTab,
                   summary, error, isFirstLoad, nreq, pending>>

\* The side panel is closed and opened again: its page, with every handler
\* in flight, is gone; the hook and App mount with their initial state.
\* chrome.storage keeps its contents.
Remount ==
    /\ nreq > 0
    /\ UNCHANGED callees
    /\ summaries' = EmptyMap
    /\ loadingSummary' = ""
    /\ currentTab' = NoTab
    /\ summary' = Null
    /\ error' = ""
    /\ isFirstLoad' = TRUE
    /\ storageQ' = <<MountWaiter(summaryCache)>>
    /\ pending' = EmptyBag
    /\ activeTabPending' = TRUE
    /\ completed' = NoCall
    /\ UNCHANGED <<summaryCache, settings, nreq>>

\* The summaries of the panel, the follow-up chat left aside.
Next ==
    \/ GetActiveTabResponse /\ UNCHANGED chat
    \/ \E u \in URLs : TabChanged(u) /\ UNCHANGED chat
    \/ \E mode \in Modes, u \in URLs, text \in Texts :
         handleContextMenuSummarize(mode, u, text) /\ UNCHANGED chat
    \/ ClickTryAgain /\ UNCHANGED chat
    \/ ClickBulletify /\ UNCHANGED chat
    \/ ClickRegenerate /\ UNCHANGED chat
    \/ \E s \in SaveChoices : handleSave(s) /\ UNCHANGED chat
    \/ MountLoadResume /\ UNCHANGED chat
    \/ Remount /\ UNCHANGED chat
    \/ LookupResume /\ UNCHANGED chat
    \/ SettingsResume /\ UNCHANGED chat
    \/ PersistReadResume /\ UNCHANGED chat
    \/ PersistWriteResume /\ UNCHANGED chat
    \/ TabChangeResume /\ UNCHANGED chat
    \/ \E task \in BagToSet(pending) :
         \/ FetchResume(task) /\ UNCHANGED chat
         \/ ProviderThrow(task) /\ UNCHANGED chat
         \/ ProviderResume(task) /\ UNCHANGED chat

Spec == Init /\ [][Next]_vars

-----------------------------------------------------------------------------
(* parseAIResponse: texts *)

\* A text is handled as the tuple of its characters.  The texts here are
\* ASCII without backslash; the bullet dot of the marker pattern is not
\* among their characters.
Chars(s) == [i \in 1..Len(s) |-> SubSeq(s, i, i)]

\* The string of a tuple of characters (put together by halves).
RECURSIVE Str(_)
Str(cs) ==
    IF cs = <<>> THEN ""
    ELSE IF Len(cs) = 1 THEN cs[1]
    ELSE LET h == Len(cs) \div 2
         IN  Str(SubSeq(cs, 1, h)) \o Str(SubSeq(cs, h + 1, Len(cs)))

\* \s of the patterns and the characters trim() strips
Whitespace == {" ", "\n", "\t", "\r"}
\* [\x00-\x1F\x7F]
ControlChars == {"\n", "\t", "\r"}
\* the characters "." of a pattern does not match
LineTerminators == {"\n", "\r"}
\* \d
Digits == {"0", "1", "2", "3", "4", "5", "6", "7", "8", "9"}

Min(S) == CHOOSE x \in S : \A y \in S : x <= y
Max(S) == 0 - Min({0 - x : x \in S})

\* The first position from i on whose character is in C (is not in C);
\* Len(t) + 1 when there is none.
First(t, i, C) ==
    LET S == {j \in i..Len(t) : t[j] \in C}
    IN  IF S = {} THEN Len(t) + 1 ELSE Min(S)
FirstNot(t, i, C) ==
    LET S == {j \in i..Len(t) : t[j] \notin C}
    IN  IF S = {} THEN Len(t) + 1 ELSE Min(S)

\* The characters of t at the positions in S, in order.
Pick(t, S) ==
    LET sel == SelectSeq([i \in DOMAIN t |-> <<i, t[i]>>],
                         LAMBDA p : p[1] \in S)
    IN  [k \in DOMAIN sel |-> sel[k][2]]

\* String.prototype.trim
Trim(t) ==
    LET S == {i \in DOMAIN t : t[i] \notin Whitespace}
    IN  IF S = {} THEN <<>> ELSE SubSeq(t, Min(S), Max(S))

\* The pieces of t between the characters of Sep that are not empty, in
\* order: split() on a run of separators, less its empty pieces.
Pieces(t, Sep) ==
    LET starts == {i \in DOMAIN t : /\ t[i] \notin Sep
                                    /\ (i = 1 \/ t[i - 1] \in Sep)}
        ordered == SelectSeq([i \in DOMAIN t |-> i],
                             LAMBDA i : i \in starts)
    IN  [k \in DOMAIN ordered |->
            SubSeq(t, ordered[k], First(t, ordered[k], Sep) - 1)]

-----------------------------------------------------------------------------
(* parseAIResponse: JSON.parse *)

\* JSON.parse for objects whose values are strings, numbers and arrays of
\* these.  A value is [t |-> "str" | "num" | "arr", v |-> ...]; a parse gives
\* [ok |-> TRUE, val, pos] with pos the position after the value, or
\* ParseError for a SyntaxError.
ParseError == [ok |-> FALSE]

\* A string: up to the next quote, with no control character inside.
ParseString(t, i) ==
    LET q == First(t, i + 1, {"\""})
    IN  IF i > Len(t) \/ t[i] # "\"" \/ q > Len(t) THEN ParseError
        ELSE IF \E j \in (i + 1)..(q - 1) : t[j] \in ControlChars
             THEN ParseError
        ELSE [ok |-> TRUE, val |-> [t |-> "str", v |-> SubSeq(t, i + 1, q - 1)],
              pos |-> q + 1]

\* A number: a run of digits, with no leading zero.
ParseNumber(t, i) ==
    LET e == FirstNot(t, i, Digits)
    IN  IF t[i] = "0" /\ e > i + 1 THEN ParseError
        ELSE [ok |-> TRUE, val |-> [t |-> "num", v |-> SubSeq(t, i, e - 1)],
              pos |-> e]

RECURSIVE ParseValue(_, _)
RECURSIVE ParseElements(_, _, _)

\* The elements of an array from position i, after those of acc.
ParseElements(t, i, acc) ==
    LET e == ParseValue(t, i)
        k == IF e.ok THEN FirstNot(t, e.pos, Whitespace) ELSE 0
    IN  IF ~e.ok \/ k > Len(t) THEN ParseError
        ELSE IF t[k] = ","
             THEN ParseElements(t, FirstNot(t, k + 1, Whitespace),
                                Append(acc, e.val))
        ELSE IF t[k] = "]"
             THEN [ok |-> TRUE, val |-> [t |-> "arr", v |-> Append(acc, e.val)],
                   pos |-> k + 1]
        ELSE ParseError

ParseValue(t, i) ==
    IF i > Len(t) THEN ParseError
    ELSE IF t[i] = "\"" THEN ParseString(t, i)
    ELSE IF t[i] \in Digits THEN ParseNumber(t, i)
    ELSE IF t[i] = "["
         THEN LET j == FirstNot(t, i + 1, Whitespace)
              IN  IF j > Len(t) THEN ParseError
                  ELSE IF t[j] = "]"
                       THEN [ok |-> TRUE, val |-> [t |-> "arr", v |-> <<>>],
                             pos |-> j + 1]
                  ELSE ParseElements(t, j, <<>>)
    ELSE ParseError

RECURSIVE ParseMembers(_, _, _)

\* The members of an object from position i, after those of acc; the
\* closing brace has to end the text.
ParseMembers(t, i, acc) ==
    LET key == ParseString(t, i)
        c == IF key.ok THEN FirstNot(t, key.pos, Whitespace) ELSE 0
        val == IF key.ok /\ c <= Len(t) /\ t[c] = ":"
               THEN ParseValue(t, FirstNot(t, c + 1, Whitespace))
               ELSE ParseError
        k == IF val.ok THEN FirstNot(t, val.pos, Whitespace) ELSE 0
        members == Append(acc, <<Str(key.val.v), val.val>>)
    IN  IF ~val.ok \/ k > Len(t) THEN ParseError
        ELSE IF t[k] = ","
             THEN ParseMembers(t, FirstNot(t, k + 1, Whitespace), members)
        ELSE IF t[k] = "}" /\ FirstNot(t, k + 1, Whitespace) > Len(t)
             THEN [ok |-> TRUE, members |-> members]
        ELSE ParseError

\* JSON.parse(t) for a text that starts with "{": the members, as pairs
\* <<key, value>> in the order written.
JSONParse(t) ==
    LET j == FirstNot(t, 2, Whitespace)
    IN  IF j > Len(t) THEN ParseError
        ELSE IF t[j] = "}"
             THEN IF j = Len(t) THEN [ok |-> TRUE, members |-> <<>>]
                  ELSE ParseError
        ELSE ParseMembers(t, j, <<>>)

\* parsed[name]: the value of the last member called name; undefined when
\* there is none.
NoField == [t |-> "undefined"]
Field(members, name) ==
    LET S == {i \in DOMAIN members : members[i][1] = name}
    IN  IF S = {} THEN NoField ELSE members[Max(S)][2]

-----------------------------------------------------------------------------
(* parseAIResponse: the stages *)

\* /"([^"]{20,})"/
MinQuoted == 20
\* bullet.length > 50
KeyMax == 50
\* bulletMatch[1].length > 10
MinMarkerRest == 10
\* s.trim().length > 20
MinSentence == 20
\* sentences.slice(0, 10)
MaxSentences == 10

\* Mutant: the elements mapped and not filtered.
MutCleanBullets(elems) ==
    [i \in DOMAIN elems |->
        IF elems[i].t = "str" THEN Str(Trim(elems[i].v)) ELSE ""]

\* parsed.bullets.map(b => typeof b === 'string' ? b.trim() : '')
\*               .filter(b => b.length > 0)
CleanBullets(elems) ==
    LET mapped == [i \in DOMAIN elems |->
                     IF elems[i].t = "str" THEN Trim(elems[i].v) ELSE <<>>]
        kept == SelectSeq(mapped, LAMBDA b : Len(b) > 0)
    IN  [i \in DOMAIN kept |-> Str(kept[i])]

\* parsed.bullets && Array.isArray(parsed.bullets)
HasBulletsArray(members) ==
    LET b == Field(members, "bullets")
    IN  b.t = "arr"

\* "return parsed": the parsed object with its bullets replaced; of its
\* other fields the callers look at error only.
ParsedResult(members) ==
    LET e == Field(members, "error")
    IN  [bullets |-> CleanBullets(Field(members, "bullets").v),
         error |-> IF e.t = "undefined" THEN ""
                   ELSE IF e.t = "arr" THEN "array" ELSE Str(e.v)]

\* Position i lies in a match of /("\s*:\s*\[[\s\S]*?\])/: a quote, a colon,
\* an opening bracket and what follows up to the first closing bracket.
InSegment(t, i) ==
    \E p \in 1..i :
        /\ t[p] = "\""
        /\ LET c == FirstNot(t, p + 1, Whitespace)
               b == FirstNot(t, c + 1, Whitespace)
               e == First(t, b + 1, {"]"})
           IN  /\ c <= Len(t) /\ t[c] = ":"
               /\ b <= Len(t) /\ t[b] = "["
               /\ e <= Len(t) /\ i <= e

\* .replace(/("\s*:\s*\[[\s\S]*?\])/g, match => match.replace(/\n/g, ' '))
JoinLines(t) ==
    [i \in DOMAIN t |-> IF t[i] = "\n" /\ InSegment(t, i) THEN " " ELSE t[i]]

\* .replace(/[\x00-\x1F\x7F]/g, ' ')
StripControl(t) ==
    [i \in DOMAIN t |-> IF t[i] \in ControlChars THEN " " ELSE t[i]]

\* .replace(/,\s*]/g, ']') and .replace(/,\s*}/g, '}'): a comma, and the
\* whitespace after it, go when the next other character is the bracket.
DropCommaBefore(t, bracket) ==
    LET next(i) == FirstNot(t, i + 1, Whitespace)
        before(i) == LET S == {j \in 1..(i - 1) : t[j] \notin Whitespace}
                     IN  IF S = {} THEN 0 ELSE Max(S)
        closes(i) == next(i) <= Len(t) /\ t[next(i)] = bracket
        dropped(i) ==
            \/ t[i] = "," /\ closes(i)
            \/ /\ t[i] \in Whitespace /\ closes(i)
               /\ before(i) > 0 /\ t[before(i)] = ","
    IN  Pick(t, {i \in DOMAIN t : ~dropped(i)})

\* .replace(/\s+/g, ' ')
CollapseWhitespace(t) ==
    LET first(i) == t[i] \notin Whitespace \/ i = 1 \/ t[i - 1] \notin Whitespace
        kept == Pick(t, {i \in DOMAIN t : first(i)})
    IN  [i \in DOMAIN kept |-> IF kept[i] \in Whitespace THEN " " ELSE kept[i]]

\* let fixed = jsonStr.replace(...)...
Repair(jsonStr) ==
    CollapseWhitespace(
        DropCommaBefore(DropCommaBefore(StripControl(JoinLines(jsonStr)), "]"),
                        "}"))

RECURSIVE QuotedRuns(_, _)
\* The matches of /"([^"]{20,})"/g from position i on: a quote that is not
\* followed by 20 characters before the next quote is passed over, and the
\* next quote is tried as an opening one.
QuotedRuns(t, i) ==
    LET p == First(t, i, {"\""})
        q == First(t, p + 1, {"\""})
    IN  IF p > Len(t) \/ q > Len(t) THEN <<>>
        ELSE IF q - p - 1 >= MinQuoted
             THEN <<SubSeq(t, p + 1, q - 1)>> \o QuotedRuns(t, q + 1)
        ELSE QuotedRuns(t, p + 1)

\* The loop over bulletRegex.exec(jsonStr)
QuotedBullets(jsonStr) ==
    LET runs == QuotedRuns(jsonStr, 1)
        trimmed == [i \in DOMAIN runs |-> Trim(runs[i])]
        kept == SelectSeq(trimmed,
                          LAMBDA b : ":" \notin {b[i] : i \in DOMAIN b}
                                     \/ Len(b) > KeyMax)
    IN  [i \in DOMAIN kept |-> Str(kept[i])]

\* trimmed.match(/^(?:[-*]|\d+[.\)])\s*(.+)/): the group, or <<>> when the
\* line does not match.
MarkerMatch(line) ==
    LET trimmed == Trim(line)
        d == FirstNot(trimmed, 1, Digits)
        m == IF trimmed = <<>> THEN 0
             ELSE IF trimmed[1] \in {"-", "*"} THEN 1
             ELSE IF d > 1 /\ d <= Len(trimmed) /\ trimmed[d] \in {".", ")"}
                  THEN d
             ELSE 0
        s == FirstNot(trimmed, m + 1, Whitespace)
    IN  IF m = 0 \/ s > Len(trimmed) THEN <<>>
        ELSE SubSeq(trimmed, s, First(trimmed, s, LineTerminators) - 1)

\* The loop over text.split('\n'); a line that is empty does not match.
MarkerBullets(text) ==
    LET lines == Pieces(text, {"\n"})
        groups == [i \in DOMAIN lines |-> MarkerMatch(lines[i])]
        kept == SelectSeq(groups, LAMBDA g : Len(g) > MinMarkerRest)
    IN  [i \in DOMAIN kept |-> Str(Trim(kept[i]))]

\* Mutant: every sentence long enough returned, however many.
MutSentenceBullets(text) ==
    LET kept == SelectSeq(Pieces(text, {".", "!", "?"}),
                          LAMBDA x : Len(Trim(x)) > MinSentence)
    IN  [i \in DOMAIN kept |-> Str(Trim(kept[i]))]

\* text.split(/[.!?]+/).filter(s => s.trim().length > 20)
\*     .slice(0, 10).map(s => s.trim())
SentenceBullets(text) ==
    LET kept == SelectSeq(Pieces(text, {".", "!", "?"}),
                          LAMBDA x : Len(Trim(x)) > MinSentence)
        n == IF Len(kept) > MaxSentences THEN MaxSentences ELSE Len(kept)
    IN  [i \in 1..n |-> Str(Trim(kept[i]))]

Returned(stage, value) ==
    [outcome |-> "returned", stage |-> stage, value |-> value]
Thrown(msg) == [outcome |-> "thrown", stage |-> 0, message |-> msg]

\* parseAIResponse(text), text as its characters: what it returns and from
\* which of its five return statements, or what it throws.
parseAIResponse(text) ==
    LET open == First(text, 1, {"{"})
        closing == {j \in DOMAIN text : text[j] = "}"}
        close == IF closing = {} THEN 0 ELSE Max(closing)
        jsonMatch == open <= Len(text) /\ close > open
        jsonStr == SubSeq(text, open, close)
        parsed == JSONParse(jsonStr)
        reparsed == JSONParse(Repair(jsonStr))
        quoted == QuotedBullets(jsonStr)
        marked == MarkerBullets(text)
        sentences == SentenceBullets(text)
    IN  IF jsonMatch /\ parsed.ok /\ HasBulletsArray(parsed.members)
        THEN Returned(1, ParsedResult(parsed.members))
        ELSE IF jsonMatch /\ reparsed.ok /\ HasBulletsArray(reparsed.members)
        THEN Returned(2, ParsedResult(reparsed.members))
        ELSE IF jsonMatch /\ quoted # <<>>
        THEN Returned(3, [bullets |-> quoted, error |-> ""])
        ELSE IF marked # <<>>
        THEN Returned(4, [bullets |-> marked, error |-> ""])
        ELSE IF sentences # <<>>
        THEN Returned(5, [bullets |-> sentences, error |-> ""])
        ELSE Thrown("Could not parse AI response")

-----------------------------------------------------------------------------
(* parseAIResponse: the replies it is called with *)

\* Elements of a bullets array, lines of a reply and sentences of a reply
\* at most.
MaxBullets == 2
MaxLines == 3
MaxLong == 12

\* The sequences over S of length n at most.
SeqsUpTo(S, n) == UNION {[1..k -> S] : k \in 0..n}

\* What a provider may put in the bullets array: strings, empty, padded,
\* short and long, with a colon, of blanks only, and a number.
BulletPool ==
    {[t |-> "str", s |-> "a"],
     [t |-> "str", s |-> ""],
     [t |-> "str", s |-> "  b  "],
     [t |-> "num", s |-> "5"],
     [t |-> "str", s |-> "a  b"],
     [t |-> "str", s |-> "First point about X is long"],
     [t |-> "str", s |-> "note: a short label here"],
     [t |-> "str", s |-> "                    "]}

\* The shapes of a reply that is meant as JSON: well formed, with a comma
\* after the last element, the same over several lines, with a second field,
\* inside prose, and with its key unquoted.
JsonForms == {"strict", "trailing", "trailingLines", "withError", "prose",
              "bareKey"}

ElementText(e) == IF e.t = "str" THEN "\"" \o e.s \o "\"" ELSE e.s

RECURSIVE Join(_, _)
Join(texts, sep) ==
    IF texts = <<>> THEN ""
    ELSE IF Len(texts) = 1 THEN texts[1]
    ELSE texts[1] \o sep \o Join(Tail(texts), sep)

\* JSON.stringify-like text of { bullets: elems } in one of the shapes.
Render(elems, form) ==
    LET texts == [i \in DOMAIN elems |-> ElementText(elems[i])]
    IN  CASE form = "strict" ->
               "{\"bullets\": [" \o Join(texts, ", ") \o "]}"
          [] form = "trailing" ->
               "{\"bullets\": [" \o Join(texts, ", ") \o ",]}"
          [] form = "trailingLines" ->
               "{\n  \"bullets\": [\n    " \o Join(texts, ",\n    ")
               \o ",\n  ],\n}"
          [] form = "withError" ->
               "{\"bullets\": [" \o Join(texts, ", ")
               \o "], \"error\": \"partial\"}"
          [] form = "prose" ->
               "Here is the summary:\n{\"bullets\": [" \o Join(texts, ", ")
               \o "]}\nDone"
          [] form = "bareKey" ->
               "{bullets: [" \o Join(texts, ", ") \o "]}"

JsonReply(elems, form) ==
    [kind |-> "json", text |-> Render(elems, form), elems |-> elems,
     form |-> form]

JsonReplies ==
    {JsonReply(elems, form) :
        elems \in SeqsUpTo(BulletPool, MaxBullets), form \in JsonForms}
    \ {JsonReply(<<>>, form) : form \in {"trailing", "trailingLines"}}

\* Lines of a reply that is a list: before the text of a line (rest) its
\* indentation, its marker and the gap after the marker.
LinePool ==
    {[lead |-> "", marker |-> "", gap |-> "", rest |-> "Intro."],
     [lead |-> "", marker |-> "1.", gap |-> " ",
      rest |-> "First point about X."],
     [lead |-> "", marker |-> "2)", gap |-> "  ",
      rest |-> "Second point about Y."],
     [lead |-> "", marker |-> "-", gap |-> " ", rest |-> "too short"],
     [lead |-> "  ", marker |-> "*", gap |-> "",
      rest |-> "Third point is indented"],
     [lead |-> "", marker |-> "", gap |-> "",
      rest |-> "A closing line without any marker in front of it"]}

LineText(l) == l.lead \o l.marker \o l.gap \o l.rest

\* What can stand before the list: nothing, or a JSON object without a
\* bullet on a line of its own.
Preambles == {"", "{\"bullets\": []}\n"}

LinesReply(lines, preamble) ==
    [kind |-> "lines",
     text |-> preamble \o Join([i \in DOMAIN lines |-> LineText(lines[i])],
                               "\n"),
     lines |-> lines, preamble |-> preamble]

LinesReplies ==
    {LinesReply(lines, preamble) :
        lines \in SeqsUpTo(LinePool, MaxLines) \ {<<>>},
        preamble \in Preambles}

\* A reply in plain prose: n sentences long enough to be kept, each with a
\* letter of its own, and a short one put before the k-th of them (k = 0:
\* no short one).
Letters == <<"A", "B", "C", "D", "E", "F", "G", "H", "I", "J", "K", "L",
             "M", "N">>
Terminators == <<". ", "! ", "?! ">>
LongSentence(i) == "Sentence " \o Letters[i] \o " is long enough to keep"
ShortSentence == "Too short"

ProseReply(n, k) ==
    LET at(i) == (IF i = k THEN ShortSentence \o ". " ELSE "")
                 \o LongSentence(i) \o Terminators[(i % 3) + 1]
    IN  [kind |-> "prose",
         text |-> Join([i \in 1..n |-> at(i)], ""),
         long |-> n, shortAt |-> k]

ProseReplies == UNION {{ProseReply(n, k) : k \in 0..n} : n \in 0..MaxLong}

\* The two examples of normalization that the documentation of the
\* extension works through.
ExampleReplies ==
    {JsonReply(<<[t |-> "str", s |-> "a"], [t |-> "str", s |-> ""],
                 [t |-> "str", s |-> "  b  "], [t |-> "num", s |-> "5"]>>,
               "strict"),
     LinesReply(<<[lead |-> "", marker |-> "", gap |-> "", rest |-> "Intro."],
                  [lead |-> "", marker |-> "1.", gap |-> " ",
                   rest |-> "First point about X."],
                  [lead |-> "", marker |-> "2.", gap |-> " ",
                   rest |-> "Second point about Y."],
                  [lead |-> "", marker |-> "", gap |-> "",
                   rest |-> "Outro."]>>, "")}

Replies == JsonReplies \cup LinesReplies \cup ProseReplies \cup ExampleReplies

\* One call of parseAIResponse, on any of the replies.
NormalizerInit ==
    /\ PanelInit /\ summaryCache = EmptyMap
    /\ reply \in Replies
    /\ normalized = NotCalled
    /\ extraction = NoExtraction
    /\ builtin = NoBuiltIn
    /\ probe = NoProbe
    /\ notifier = NoNotifier

CallParseAIResponse ==
    /\ normalized = NotCalled
    /\ normalized' = parseAIResponse(Chars(reply.text))
    /\ UNCHANGED <<panel, reply, extraction, builtin, probe, notifier>>

NormalizerNext == CallParseAIResponse

NormalizerSpec == NormalizerInit /\ [][NormalizerNext]_vars

-----------------------------------------------------------------------------
(* background.js: fetchPageContent for a video URL *)

\* text.slice(0, 30000)
ContentLimit == 30000
\* if (content.length < 100)
NoteBelow == 100
\* /"description"\s*:\s*"([^"]{50,})"/i
MinDescription == 50

\* t.includes(sub), and the first position of sub in t from i on (Len(t) + 1
\* when there is none).
Find(t, sub, i) ==
    LET S == {j \in i..(Len(t) - Len(sub) + 1) :
                 \A k \in DOMAIN sub : t[j + k - 1] = sub[k]}
    IN  IF S = {} THEN Len(t) + 1 ELSE Min(S)
Includes(t, sub) == Find(t, sub, 1) <= Len(t)

\* url.includes('youtube.com/watch') || url.includes('youtu.be/')
IsVideoURL(url) ==
    \/ Includes(Chars(url), Chars("youtube.com/watch"))
    \/ Includes(Chars(url), Chars("youtu.be/"))

\* url.match(/[?&]v=([^&]+)/) || url.match(/youtu\.be\/([^?]+)/): the group,
\* "" for no match.
VideoId(url) ==
    LET t == Chars(url)
        S == {i \in 1..(Len(t) - 3) :
                 /\ t[i] \in {"?", "&"} /\ t[i + 1] = "v" /\ t[i + 2] = "="
                 /\ t[i + 3] # "&"}
        v == Min(S) + 3
        b == Find(t, Chars("youtu.be/"), 1) + 9
    IN  IF S # {} THEN Str(SubSeq(t, v, First(t, v, {"&"}) - 1))
        ELSE IF b <= Len(t) /\ t[b] # "?"
             THEN Str(SubSeq(t, b, First(t, b, {"?"}) - 1))
        ELSE ""

\* t with every occurrence of the two characters of pat, from i on, replaced
\* by with: .replace(/pat/g, with)
RECURSIVE ReplaceAll(_, _, _, _)
ReplaceAll(t, pat, with, i) ==
    LET j == Find(t, pat, i)
    IN  IF j > Len(t) THEN t
        ELSE ReplaceAll(SubSeq(t, 1, j - 1) \o with
                          \o SubSeq(t, j + Len(pat), Len(t)),
                        pat, with, j + Len(with))

\* JSON.parse(`"${description}"`) for a text without a quote: its escapes
\* \n and \\ resolved; a SyntaxError for a control character and for a
\* backslash before anything else or at the end.
RECURSIVE Unescaped(_, _)
Unescaped(t, i) ==
    LET j == First(t, i, {"\\"})
    IN  IF j > Len(t) THEN [ok |-> TRUE, v |-> t]
        ELSE IF j = Len(t) \/ t[j + 1] \notin {"n", "\\"} THEN ParseError
        ELSE Unescaped(SubSeq(t, 1, j - 1)
                         \o <<IF t[j + 1] = "n" THEN "\n" ELSE "\\">>
                         \o SubSeq(t, j + 2, Len(t)),
                       j + 1)

\* try { description = JSON.parse(...) } catch (e) { description = ... }
Unescape(description) ==
    LET t == Chars(description)
        parsed == IF \E i \in DOMAIN t : t[i] \in ControlChars
                  THEN ParseError ELSE Unescaped(t, 1)
    IN  IF parsed.ok THEN Str(parsed.v)
        ELSE Str(ReplaceAll(ReplaceAll(ReplaceAll(ReplaceAll(ReplaceAll(
                 t, <<"\\", "n">>, <<"\n">>, 1),
                    <<"\\", "r">>, <<>>, 1),
                    <<"\\", "t">>, <<" ">>, 1),
                    <<"\\", "\"">>, <<"\"">>, 1),
                    <<"\\", "\\">>, <<"\\">>, 1))

TranscriptNote ==
    "\n\n[Note: Could not extract transcript. Try clicking \"Show transcript\" on the video, then refresh.]"

\* Mutant: the cut forgotten.
MutLimited(text) == text

\* .slice(0, 30000)
Limited(text) == Slice(text, ContentLimit)

\* The content of extractYouTubeDescriptionFromHtml(html) before the cut;
\* html is given by what its patterns find in it: the meta title and the
\* <title>, ownerChannelName and the itemprop name, the "description"
\* string and the meta description ("" for a pattern that finds nothing).
DescriptionText(html) ==
    LET title == IF html.metaTitle # "" THEN html.metaTitle
                 ELSE IF html.titleTag # "" THEN html.titleTag
                 ELSE "Unknown Title"
        channel == IF html.ownerChannelName # "" THEN html.ownerChannelName
                   ELSE html.itempropName
        jsonLd == IF Len(html.description) >= MinDescription
                  THEN Unescape(html.description) ELSE ""
        description == IF jsonLd # "" THEN jsonLd ELSE html.metaDescription
        content == "YouTube Video: " \o title \o "\n"
                   \o (IF channel # "" THEN "Channel: " \o channel \o "\n"
                       ELSE "")
                   \o "\nDescription:\n" \o description
    IN  IF Len(content) < NoteBelow THEN content \o TranscriptNote
        ELSE content

\* return content.slice(0, 30000)
extractYouTubeDescriptionFromHtml(html) == Limited(DescriptionText(html))

\* The content built from the data of a successful probe, before the cut.
TranscriptText(data) ==
    "YouTube Video: " \o data.title \o "\n"
    \o (IF data.channel # "" THEN "Channel: " \o data.channel \o "\n"
        ELSE "")
    \o "\nTranscript:\n" \o data.transcript

\* return content.slice(0, 30000)
TranscriptContent(data) == Limited(TranscriptText(data))

\* n times the text s, for the long texts of the pools.
RECURSIVE Repeated(_, _)
Repeated(s, n) ==
    IF n = 0 THEN "" ELSE IF n = 1 THEN s
    ELSE Repeated(s, n \div 2) \o Repeated(s, n - n \div 2)

\* URLs that fetchPageContent takes for a video: with the id as the v
\* parameter, first or not, as a short link, and without an id.
VideoURLs ==
    {"https://www.youtube.com/watch?v=abc",
     "https://www.youtube.com/watch?list=PL1&v=abc",
     "https://youtu.be/abc?t=10",
     "https://www.youtube.com/watch?list=PL1",
     "https://youtu.be/"}

\* What chrome.tabs.query({ url: '*://www.youtube.com/watch*' }) gives: the
\* URLs of the open watch tabs.
OpenTabs ==
    {<<>>,
     <<"https://www.youtube.com/watch?v=abc">>,
     <<"https://www.youtube.com/watch?v=xyz">>,
     <<"https://www.youtube.com/watch?v=xyz",
       "https://www.youtube.com/watch?v=abc&t=5">>}

\* What chrome.scripting.executeScript resolves with, as results[0].result:
\* nothing, the failure report of the probe, or its data.
ProbeResults ==
    {[success |-> FALSE, present |-> FALSE],
     [success |-> FALSE, present |-> TRUE, error |-> "NO_TRANSCRIPT_DOM"],
     [success |-> FALSE, present |-> TRUE,
      error |-> "Cannot read properties of null"],
     [success |-> TRUE, present |-> TRUE,
      data |-> [title |-> "A video", channel |-> "Chan",
                transcript |-> "first segment second segment"]],
     [success |-> TRUE, present |-> TRUE,
      data |-> [title |-> "A video", channel |-> "",
                transcript |-> "one"]],
     [success |-> TRUE, present |-> TRUE,
      data |-> [title |-> "A long video", channel |-> "Chan",
                transcript |-> Repeated("word ", ContentLimit \div 5)]]}

NoHtml == [metaTitle |-> "", titleTag |-> "", ownerChannelName |-> "",
           itempropName |-> "", description |-> "", metaDescription |-> ""]

\* Watch pages as fetch(url) gives them, by the parts the patterns find.
HtmlPool ==
    {NoHtml,
     [NoHtml EXCEPT !.titleTag = "A video - YouTube",
                    !.metaDescription = "About the video"],
     [NoHtml EXCEPT !.metaTitle = "A video", !.titleTag = "A video - YouTube",
                    !.ownerChannelName = "Chan",
                    !.description =
        "What the video is about, told at length\\nand over two lines"],
     [NoHtml EXCEPT !.titleTag = "A video - YouTube",
                    !.itempropName = "Chan",
                    !.description = "Too short for the pattern",
                    !.metaDescription =
        "A description from the meta tag that is long enough by itself"],
     [NoHtml EXCEPT !.metaTitle =
        "A video whose title is by itself longer than what the note needs to be added"],
     [NoHtml EXCEPT !.titleTag = "A long video - YouTube",
                    !.metaDescription = Repeated("word ", ContentLimit \div 5)]}

\* The matching tab: tabs.find(tab => tab.url && tab.url.includes(videoId))
MatchingTab(tabs, videoId) ==
    LET S == {i \in DOMAIN tabs : Includes(Chars(tabs[i]), Chars(videoId))}
    IN  IF S = {} THEN "" ELSE tabs[Min(S)]

\* A call of fetchPageContent(url): where it is (pc), its locals, and once
\* it is done whether it returned or threw, what, and whether the transcript
\* was got (path: "transcript", or "noTab" / "probeFailed" for the two
\* fallbacks, or "page" for a URL that is not a video's).  Not in the code
\* are page, the document that fetch gave for such a URL, and full, the
\* content as it was before slice(0, 30000).
NoPage == [wrapper |-> "", blocks |-> <<>>]
NoProbeResult == [success |-> FALSE, present |-> FALSE]
Extraction(url) ==
    [pc |-> "called", url |-> url, videoId |-> "", matchingTab |-> "",
     result |-> NoProbeResult, path |-> "", outcome |-> "", content |-> "",
     message |-> "", page |-> NoPage, full |-> ""]

ExtractionReturns(e, path, content) ==
    [e EXCEPT !.pc = "done", !.path = path, !.outcome = "returned",
              !.content = content]
ExtractionThrows(e, path, message) ==
    [e EXCEPT !.pc = "done", !.path = path, !.outcome = "thrown",
              !.message = message]

ExtractionInit ==
    /\ PanelInit /\ summaryCache = EmptyMap
    /\ reply = NoReply
    /\ normalized = NotCalled
    /\ extraction \in {Extraction(url) : url \in VideoURLs}
    /\ builtin = NoBuiltIn
    /\ probe = NoProbe
    /\ notifier = NoNotifier

\* fetchPageContent(url) and extractYouTubeContent(url) up to the await of
\* chrome.tabs.query.
StartVideoExtraction ==
    /\ extraction.pc = "called" /\ IsVideoURL(extraction.url)
    /\ extraction' =
         IF VideoId(extraction.url) = ""
         THEN ExtractionThrows(extraction, "",
                               "Could not extract video ID from URL")
         ELSE [extraction EXCEPT !.pc = "tabsQuery",
                                 !.videoId = VideoId(extraction.url)]
    /\ UNCHANGED <<panel, reply, normalized, builtin, probe, notifier>>

\* The tabs arrive: executeScript in the matching tab, or fetch(url) when
\* there is none.
TabsQueryResume ==
    /\ extraction.pc = "tabsQuery"
    /\ \E tabs \in OpenTabs :
         extraction' =
           IF MatchingTab(tabs, extraction.videoId) = ""
           THEN [extraction EXCEPT !.pc = "fetch", !.path = "noTab"]
           ELSE [extraction EXCEPT
                    !.pc = "probe",
                    !.matchingTab = MatchingTab(tabs, extraction.videoId)]
    /\ UNCHANGED <<panel, reply, normalized, builtin, probe, notifier>>

\* executeScript resolves: the transcript content, or fetch(url).
ProbeResume ==
    /\ extraction.pc = "probe"
    /\ \E result \in ProbeResults :
         extraction' =
           IF result.present /\ result.success
           THEN ExtractionReturns(
                    [extraction EXCEPT !.result = result,
                                       !.full = TranscriptText(result.data)],
                    "transcript", TranscriptContent(result.data))
           ELSE [extraction EXCEPT !.pc = "fetch", !.path = "probeFailed",
                                   !.result = result]
    /\ UNCHANGED <<panel, reply, normalized, builtin, probe, notifier>>

\* executeScript rejects (the tab was closed, the page cannot be scripted):
\* nothing catches it.
ProbeRejects ==
    /\ extraction.pc = "probe"
    /\ extraction' = ExtractionThrows(extraction, "probeFailed",
                                      "Cannot access contents of the page")
    /\ UNCHANGED <<panel, reply, normalized, builtin, probe, notifier>>

\* fetch(url) and response.text() resolve: the description content.
FallbackFetchResume ==
    /\ extraction.pc = "fetch"
    /\ \E html \in HtmlPool :
         extraction' =
           ExtractionReturns(
               [extraction EXCEPT !.full = DescriptionText(html)],
               extraction.path, extractYouTubeDescriptionFromHtml(html))
    /\ UNCHANGED <<panel, reply, normalized, builtin, probe, notifier>>

\* fetch(url) rejects: nothing catches it.
FallbackFetchRejects ==
    /\ extraction.pc = "fetch"
    /\ extraction' = ExtractionThrows(extraction, extraction.path,
                                      "Failed to fetch")
    /\ UNCHANGED <<panel, reply, normalized, builtin, probe, notifier>>

ExtractionNext ==
    \/ StartVideoExtraction
    \/ TabsQueryResume
    \/ ProbeResume
    \/ ProbeRejects
    \/ FallbackFetchResume
    \/ FallbackFetchRejects

ExtractionSpec == ExtractionInit /\ [][ExtractionNext]_vars

-----------------------------------------------------------------------------
(* background.js: fetchPageContent for any other URL *)

UpperCase == Chars("ABCDEFGHIJKLMNOPQRSTUVWXYZ")
LowerCase == Chars("abcdefghijklmnopqrstuvwxyz")
CapitalLetters == {UpperCase[k] : k \in DOMAIN UpperCase}

\* The letter as the i flag of a pattern compares it.
Lower(c) ==
    IF c \in CapitalLetters
    THEN LowerCase[CHOOSE k \in DOMAIN UpperCase : UpperCase[k] = c]
    ELSE c

\* The first position from i on where sub (in lower case) occurs in t,
\* whatever the case of the letters of t; Len(t) + 1 when there is none.
FindNoCase(t, sub, i) ==
    LET S == {j \in i..(Len(t) - Len(sub) + 1) :
                 \A k \in DOMAIN sub : Lower(t[j + k - 1]) = sub[k]}
    IN  IF S = {} THEN Len(t) + 1 ELSE Min(S)

\* /<tag[^>]*>([\s\S]*?)<\/tag>/i tried from position i on: where the first
\* match starts (at), where its group starts (from) and ends (to), and
\* where the match ends (end); found is FALSE when nothing matches.  The
\* opening is "<tag" with whatever follows up to the next ">", and the
\* match ends with the first "</tag>" after it.
ElementMatch(t, tag, i) ==
    LET at == FindNoCase(t, Chars("<" \o tag), i)
        gt == First(t, at + Len(tag) + 1, {">"})
        close == FindNoCase(t, Chars("</" \o tag \o ">"), gt + 1)
    IN  [found |-> at <= Len(t) /\ gt <= Len(t) /\ close <= Len(t),
         at |-> at, from |-> gt + 1, to |-> close - 1,
         end |-> close + Len(tag) + 2]

\* .replace(/<tag[^>]*>[\s\S]*?<\/tag>/gi, ''), from position i on.
RECURSIVE StripElements(_, _, _)
StripElements(t, tag, i) ==
    LET m == ElementMatch(t, tag, i)
    IN  IF ~m.found THEN t
        ELSE StripElements(SubSeq(t, 1, m.at - 1)
                             \o SubSeq(t, m.end + 1, Len(t)),
                           tag, m.at)

\* .replace(/<[^>]+>/g, ' '), from position i on: a "<", one character or
\* more that are not ">", and the ">".
RECURSIVE StripTags(_, _)
StripTags(t, i) ==
    LET lt == First(t, i, {"<"})
        gt == First(t, lt + 1, {">"})
    IN  IF gt > Len(t) THEN t
        ELSE IF gt = lt + 1 THEN StripTags(t, lt + 1)
        ELSE StripTags(SubSeq(t, 1, lt - 1) \o <<" ">>
                         \o SubSeq(t, gt + 1, Len(t)),
                       lt + 1)

\* The six entities, in the order of the code.
DecodeEntities(t) ==
    ReplaceAll(ReplaceAll(ReplaceAll(ReplaceAll(ReplaceAll(ReplaceAll(
        t, Chars("&nbsp;"), <<" ">>, 1),
           Chars("&amp;"), <<"&">>, 1),
           Chars("&lt;"), <<"<">>, 1),
           Chars("&gt;"), <<">">>, 1),
           Chars("&quot;"), <<"\"">>, 1),
           Chars("&#39;"), <<"'">>, 1)

\* The five kinds of block removed before the content is chosen.
Stripped(html) ==
    StripElements(StripElements(StripElements(StripElements(StripElements(
        html, "script", 1), "style", 1), "nav", 1), "header", 1),
        "footer", 1)

\* articleMatch[1], else mainMatch[1], else the text as it is.
Chosen(text) ==
    LET articleMatch == ElementMatch(text, "article", 1)
        mainMatch == ElementMatch(text, "main", 1)
    IN  IF articleMatch.found
        THEN SubSeq(text, articleMatch.from, articleMatch.to)
        ELSE IF mainMatch.found
             THEN SubSeq(text, mainMatch.from, mainMatch.to)
        ELSE text

\* The text of the page before the cut.
PageTextOf(html) ==
    Str(Trim(CollapseWhitespace(DecodeEntities(
        StripTags(Chosen(Stripped(Chars(html))), 1)))))

\* Documents: a text, or an element with its children in order.
TextNode(text) == [tag |-> "", text |-> text, kids |-> <<>>]
Element(tag, kids) == [tag |-> tag, text |-> "", kids |-> kids]

ElementTags == {"nav", "script", "article", "main", "div", "header"}
\* Elements with elements inside (the text of a script is not markup).
ContainerTags == ElementTags \ {"script"}

\* What stands at one place of a document, its texts being a, b and c: a
\* text, an element with a text, or an element with a text, an element
\* and a text.
BlocksWith(a, b, c) ==
    {TextNode(a)}
    \cup {Element(t, <<TextNode(a)>>) : t \in ElementTags}
    \cup {Element(t, <<TextNode(a), Element(u, <<TextNode(b)>>),
                       TextNode(c)>>) :
            t \in ContainerTags, u \in {"nav", "script", "article"}}

\* A document is one block or two, as they are or inside one element.
Page(wrapper, blocks) == [wrapper |-> wrapper, blocks |-> blocks]
ShortPages ==
    {Page(w, <<x>>) : w \in ContainerTags \cup {""},
                      x \in BlocksWith("A", "B", "C")}
    \cup {Page(w, <<x, y>>) : w \in ContainerTags \cup {""},
                              x \in BlocksWith("A", "B", "C"),
                              y \in BlocksWith("D", "E", "F")}

\* Documents whose text is as long as the limit, and longer.
LongPages ==
    {Page("", <<Element("article",
                        <<TextNode(Repeated("x", ContentLimit))>>)>>),
     Page("", <<Element("nav", <<TextNode("menu")>>),
                Element("div",
                        <<TextNode(Repeated("word ", ContentLimit \div 5)
                                   \o "ending")>>)>>)}

Pages == ShortPages \cup LongPages

\* The children of the document itself.
TopLevel(page) ==
    IF page.wrapper = "" THEN page.blocks
    ELSE <<Element(page.wrapper, page.blocks)>>

\* The markup of a node, of nodes in a row, of a document.
RECURSIVE Markup(_)
Markup(node) ==
    IF node.tag = "" THEN node.text
    ELSE LET inside == [i \in DOMAIN node.kids |-> Markup(node.kids[i])]
         IN  "<" \o node.tag \o ">"
             \o (IF Len(inside) = 0 THEN ""
                 ELSE IF Len(inside) = 1 THEN inside[1]
                 ELSE IF Len(inside) = 2 THEN inside[1] \o inside[2]
                 ELSE inside[1] \o inside[2] \o inside[3])
             \o "</" \o node.tag \o ">"
MarkupOf(page) ==
    LET top == TopLevel(page)
    IN  IF Len(top) = 1 THEN Markup(top[1])
        ELSE Markup(top[1]) \o Markup(top[2])

PageURLs == {"https://example.com/post"}

\* Every URL fetchPageContent is called with.
FetchInit ==
    /\ PanelInit /\ summaryCache = EmptyMap
    /\ reply = NoReply
    /\ normalized = NotCalled
    /\ extraction \in {Extraction(url) : url \in VideoURLs \cup PageURLs}
    /\ builtin = NoBuiltIn
    /\ probe = NoProbe
    /\ notifier = NoNotifier

\* fetchPageContent(url) for a URL that is no video's, up to
\* "await fetch(url)".
StartPageFetch ==
    /\ extraction.pc = "called" /\ ~IsVideoURL(extraction.url)
    /\ extraction' = [extraction EXCEPT !.pc = "pageFetch", !.path = "page"]
    /\ UNCHANGED <<panel, reply, normalized, builtin, probe, notifier>>

\* fetch(url) resolves: "await response.text()".
PageFetchResume ==
    /\ extraction.pc = "pageFetch"
    /\ extraction' = [extraction EXCEPT !.pc = "pageText"]
    /\ UNCHANGED <<panel, reply, normalized, builtin, probe, notifier>>

\* fetch(url) rejects: nothing catches it.
PageFetchRejects ==
    /\ extraction.pc = "pageFetch"
    /\ extraction' = ExtractionThrows(extraction, "page", "Failed to fetch")
    /\ UNCHANGED <<panel, reply, normalized, builtin, probe, notifier>>

\* The document arrives: blocks removed, content chosen, tags and entities
\* and whitespace cleaned, and the cut.
PageTextResume ==
    /\ extraction.pc = "pageText"
    /\ \E page \in Pages :
         LET text == PageTextOf(MarkupOf(page))
         IN  extraction' =
               ExtractionReturns([extraction EXCEPT !.page = page,
                                                    !.full = text],
                                 "page", Limited(text))
    /\ UNCHANGED <<panel, reply, normalized, builtin, probe, notifier>>

FetchNext ==
    \/ StartVideoExtraction
    \/ TabsQueryResume
    \/ ProbeResume
    \/ ProbeRejects
    \/ FallbackFetchResume
    \/ FallbackFetchRejects
    \/ StartPageFetch
    \/ PageFetchResume
    \/ PageFetchRejects
    \/ PageTextResume

FetchSpec == FetchInit /\ [][FetchNext]_vars

-----------------------------------------------------------------------------
(* background.js: extractTranscriptFromPage *)

\* The delays of its timers, in milliseconds: the pauses, the pause after
\* scrolling, and the timeout of waitForElement.
Pause == 500
ScrollPause == 300
WaitTimeout == 3000

\* The textContent of the .segment-text of each
\* ytd-transcript-segment-renderer of a transcript panel, in document
\* order; "" for a renderer without one, or with an empty one.
SegmentLists ==
    {<<>>, <<" first ", "second">>, <<"", "only ">>, <<"  ">>, <<"">>}

\* The text of the h1 and of the yt-formatted-string of the title ("" when
\* absent), and document.title.
Headings == {<<" A talk ", "">>, <<"", "A talk (meta)">>, <<"", "">>}
DocumentTitle == "A talk - YouTube"

\* The video page the function runs in: the segment renderers in the
\* document (items), those that activating the transcript control brings
\* (behind), whether there is a description area, the "...more" button
\* (absent, hidden or visible), and the transcript control (there now,
\* there once the page has loaded further, or never).
VideoPages ==
    {[items |-> IF open THEN segments ELSE <<>>,
      behind |-> IF open THEN <<>> ELSE segments,
      description |-> description, more |-> more, button |-> button,
      heading |-> heading, channel |-> channel] :
        open \in BOOLEAN, segments \in SegmentLists,
        description \in BOOLEAN, more \in {"absent", "hidden", "visible"},
        button \in {"now", "later", "never"}, heading \in Headings,
        channel \in {"", " Chan "}}

NoResult == [success |-> FALSE, error |-> ""]

\* A call of extractTranscriptFromPage in the page dom: where it is (pc),
\* texts, and for the properties the number of times the transcript control
\* was activated, the milliseconds its timers took in all and since the
\* control was activated, and what it returned or threw.
ProbeCall(dom) ==
    [pc |-> "called", dom |-> dom, texts |-> <<>>, clicks |-> 0,
     elapsed |-> 0, since |-> 0, outcome |-> "", result |-> NoResult]

ProbeInit ==
    /\ PanelInit /\ summaryCache = EmptyMap
    /\ reply = NoReply
    /\ normalized = NotCalled
    /\ extraction = NoExtraction
    /\ builtin = NoBuiltIn
    /\ notifier = NoNotifier
    /\ probe \in {ProbeCall(dom) : dom \in VideoPages}

\* textContent.trim(), on the string as it is.
Trimmed(s) ==
    LET S == {i \in 1..Len(s) : SubSeq(s, i, i) \notin Whitespace}
    IN  IF S = {} THEN "" ELSE SubSeq(s, Min(S), Max(S))

\* getTranscriptFromDOM(): the trimmed textContent of every segment that
\* has a text element with a textContent.
getTranscriptFromDOM(items) ==
    LET kept == SelectSeq(items, LAMBDA x : x # "")
    IN  [i \in DOMAIN kept |-> Trimmed(kept[i])]

\* h1 text, else the yt-formatted-string text, else document.title.
TitleOf(dom) ==
    LET h1 == Trimmed(dom.heading[1])
        meta == Trimmed(dom.heading[2])
    IN  IF h1 # "" THEN h1 ELSE IF meta # "" THEN meta ELSE DocumentTitle

\* A timer of ms milliseconds has fired.
Elapsed(p, ms) ==
    [p EXCEPT !.elapsed = @ + ms,
              !.since = IF p.clicks > 0 THEN @ + ms ELSE @]

\* Mutant: success whatever was collected.
MutFinish(p) ==
    [p EXCEPT !.pc = "done", !.outcome = "returned",
              !.result = [success |-> TRUE,
                          data |-> [title |-> TitleOf(p.dom),
                                    channel |-> Trimmed(p.dom.channel),
                                    transcript |-> Join(p.texts, " ")]]]

\* From "if (texts.length > 0)" to the return.
Finish(p) ==
    [p EXCEPT !.pc = "done", !.outcome = "returned",
              !.result =
                 IF Len(p.texts) > 0
                 THEN [success |-> TRUE,
                       data |-> [title |-> TitleOf(p.dom),
                                 channel |-> Trimmed(p.dom.channel),
                                 transcript |-> Join(p.texts, " ")]]
                 ELSE [success |-> FALSE, error |-> "NO_TRANSCRIPT_DOM"]]

\* transcriptBtn.click(); await waitForElement(...): resolved at once when
\* a segment renderer is in the document, else the observer and the timer
\* are set.
ClickStep(p) ==
    [p EXCEPT !.clicks = @ + 1,
              !.pc = IF p.dom.items # <<>> THEN "settle"
                     ELSE "waitForElement"]

\* let transcriptBtn = findTranscriptButton(), and what follows it.
FindStep(p) ==
    IF p.dom.button = "now" THEN ClickStep(p) ELSE [p EXCEPT !.pc = "retry"]

\* The "...more" button: clicked when it is there and visible.
MoreStep(p) ==
    IF p.dom.more = "visible" THEN [p EXCEPT !.pc = "more"] ELSE FindStep(p)

\* extractTranscriptFromPage() up to its first await, or to its return when
\* the transcript is open already.
StartProbe ==
    /\ probe.pc = "called"
    /\ LET texts == getTranscriptFromDOM(probe.dom.items)
       IN  probe' = IF Len(texts) > 0
                    THEN Finish([probe EXCEPT !.texts = texts])
                    ELSE [probe EXCEPT !.pc = "ready"]
    /\ UNCHANGED <<panel, reply, normalized, extraction, builtin, notifier>>

\* After the first pause: window.scrollTo(0, 300) and the next pause.
ReadyResume ==
    /\ probe.pc = "ready"
    /\ probe' = [Elapsed(probe, Pause) EXCEPT !.pc = "scrolled"]
    /\ UNCHANGED <<panel, reply, normalized, extraction, builtin, notifier>>

\* After the pause that follows the scroll: the description area is
\* clicked when there is one.
ScrollResume ==
    /\ probe.pc = "scrolled"
    /\ probe' = IF probe.dom.description
                THEN [Elapsed(probe, ScrollPause) EXCEPT !.pc = "expanded"]
                ELSE MoreStep(Elapsed(probe, ScrollPause))
    /\ UNCHANGED <<panel, reply, normalized, extraction, builtin, notifier>>

ExpandResume ==
    /\ probe.pc = "expanded"
    /\ probe' = MoreStep(Elapsed(probe, Pause))
    /\ UNCHANGED <<panel, reply, normalized, extraction, builtin, notifier>>

MoreResume ==
    /\ probe.pc = "more"
    /\ probe' = FindStep(Elapsed(probe, Pause))
    /\ UNCHANGED <<panel, reply, normalized, extraction, builtin, notifier>>

\* if (!transcriptBtn) { await pause; transcriptBtn = findTranscriptButton() }
RetryResume ==
    /\ probe.pc = "retry"
    /\ probe' = IF probe.dom.button = "now"
                THEN ClickStep(Elapsed(probe, Pause))
                ELSE Finish(Elapsed(probe, Pause))
    /\ UNCHANGED <<panel, reply, normalized, extraction, builtin, notifier>>

\* waitForElement: the observer has seen a segment renderer, some time
\* before the timer would have fired.
ObserverResume ==
    /\ probe.pc = "waitForElement"
    /\ probe.dom.items # <<>>
    /\ \E ms \in {0, WaitTimeout - 1} :
         probe' = [Elapsed(probe, ms) EXCEPT !.pc = "settle"]
    /\ UNCHANGED <<panel, reply, normalized, extraction, builtin, notifier>>

\* waitForElement: the timer fires first, resolve(null).
TimeoutResume ==
    /\ probe.pc = "waitForElement"
    /\ probe.dom.items = <<>>
    /\ probe' = [Elapsed(probe, WaitTimeout) EXCEPT !.pc = "settle"]
    /\ UNCHANGED <<panel, reply, normalized, extraction, builtin, notifier>>

\* After the last pause: texts = getTranscriptFromDOM(), and the return.
SettleResume ==
    /\ probe.pc = "settle"
    /\ probe' = Finish([Elapsed(probe, Pause) EXCEPT
                          !.texts = getTranscriptFromDOM(probe.dom.items)])
    /\ UNCHANGED <<panel, reply, normalized, extraction, builtin, notifier>>

\* A call on the document throws: catch (e) { return { success: false,
\* error: e.message } }.
ProbeCatches ==
    /\ probe.pc \notin {"idle", "done"}
    /\ probe' = [probe EXCEPT !.pc = "done", !.outcome = "returned",
                    !.result = [success |-> FALSE,
                                error |-> "document.body is null"]]
    /\ UNCHANGED <<panel, reply, normalized, extraction, builtin, notifier>>

\* The page goes on loading while the function waits: the transcript
\* control appears.
ButtonAppears ==
    /\ probe.pc \notin {"idle", "done"}
    /\ probe.dom.button = "later"
    /\ probe' = [probe EXCEPT !.dom.button = "now"]
    /\ UNCHANGED <<panel, reply, normalized, extraction, builtin, notifier>>

\* The panel the control opens is filled with its segments.
SegmentsAppear ==
    /\ probe.pc \notin {"idle", "done"}
    /\ probe.clicks > 0
    /\ probe.dom.behind # <<>>
    /\ probe' = [probe EXCEPT !.dom.items = probe.dom.behind,
                              !.dom.behind = <<>>]
    /\ UNCHANGED <<panel, reply, normalized, extraction, builtin, notifier>>

ProbeNext ==
    \/ StartProbe
    \/ ReadyResume
    \/ ScrollResume
    \/ ExpandResume
    \/ MoreResume
    \/ RetryResume
    \/ ObserverResume
    \/ TimeoutResume
    \/ SettleResume
    \/ ProbeCatches
    \/ ButtonAppears
    \/ SegmentsAppear

\* The steps of the function itself: every timer it sets fires, and a
\* resolved promise is resumed.
ProbeSteps ==
    \/ StartProbe
    \/ ReadyResume
    \/ ScrollResume
    \/ ExpandResume
    \/ MoreResume
    \/ RetryResume
    \/ ObserverResume
    \/ TimeoutResume
    \/ SettleResume

ProbeSpec == ProbeInit /\ [][ProbeNext]_vars /\ WF_vars(ProbeSteps)

-----------------------------------------------------------------------------
(* background.js: the tab-change notifier *)

\* Tab events followed in one life of the background worker.
MaxEvents == 3

TabIds == {1, 2}

\* What chrome.tabs.query({active, currentWindow}) resolves with when the
\* window has no active tab: [tab] of an empty array.
NoActiveTab == [id |-> 0, url |-> ""]

\* The worker as it starts, in a browser with the tabs given: currentTabUrl
\* ("" for null), the url of each tab and the active one, the listeners'
\* invocations that await a tab query (a bag: position, the tabId of
\* onUpdated, and the answer once the browser has given it), and for the
\* properties the urls of the TAB_CHANGED messages sent, oldest first, the
\* number of notifications left out, and the events so far.
Worker(tabs, active) ==
    [currentTabUrl |-> "", tabs |-> tabs, active |-> active,
     handlers |-> EmptyBag, sent |-> <<>>, suppressed |-> 0, nevents |-> 0]

NotifierInit ==
    /\ PanelInit /\ summaryCache = EmptyMap
    /\ reply = NoReply
    /\ normalized = NotCalled
    /\ extraction = NoExtraction
    /\ builtin = NoBuiltIn
    /\ probe = NoProbe
    /\ notifier \in {Worker(tabs, active) :
                        tabs \in [TabIds -> URLs], active \in TabIds}

\* An invocation of a listener, up to its tab query.
Handler(pc, tabId) == [pc |-> pc, tabId |-> tabId, answer |-> NoActiveTab]

\* Mutant: every tab is taken for a new one.
MutDiffers(url, last) == TRUE

\* tab.url !== currentTabUrl
Differs(url, last) == url # last

\* chrome.tabs.onActivated: notifyTabChange() up to its await.
TabActivated(t) ==
    /\ notifier.nevents < MaxEvents
    /\ t # notifier.active
    /\ notifier' = [notifier EXCEPT
                      !.active = t,
                      !.nevents = @ + 1,
                      !.handlers = @ (+) SetToBag({Handler("query", 0)})]
    /\ UNCHANGED <<panel, reply, normalized, extraction, builtin, probe>>

\* chrome.tabs.onUpdated with changeInfo.url: tab t has gone to url u.
TabNavigated(t, u) ==
    /\ notifier.nevents < MaxEvents
    /\ u # notifier.tabs[t]
    /\ notifier' = [notifier EXCEPT
                      !.tabs[t] = u,
                      !.nevents = @ + 1,
                      !.handlers = @ (+) SetToBag({Handler("isActive", t)})]
    /\ UNCHANGED <<panel, reply, normalized, extraction, builtin, probe>>

\* chrome.tabs.onUpdated with changeInfo.status === 'complete'.
TabCompleted(t) ==
    /\ notifier.nevents < MaxEvents
    /\ notifier' = [notifier EXCEPT
                      !.nevents = @ + 1,
                      !.handlers = @ (+) SetToBag({Handler("isActive", t)})]
    /\ UNCHANGED <<panel, reply, normalized, extraction, builtin, probe>>

\* The browser answers a tab query with the active tab as it is then, or
\* with none.
QueryAnswered(h) ==
    /\ h.pc \in {"isActive", "query"}
    /\ \E answer \in {[id |-> notifier.active,
                       url |-> notifier.tabs[notifier.active]],
                      NoActiveTab} :
         notifier' = [notifier EXCEPT
                        !.handlers = (@ (-) SetToBag({h})) (+)
                            SetToBag({[h EXCEPT
                               !.pc = IF h.pc = "query" THEN "queryGot"
                                      ELSE "isActiveGot",
                               !.answer = answer]})]
    /\ UNCHANGED <<panel, reply, normalized, extraction, builtin, probe>>

\* A tab query rejects: caught in notifyTabChange, and the end of the
\* listener in onUpdated.
QueryRejects(h) ==
    /\ h.pc \in {"isActive", "query"}
    /\ notifier' = [notifier EXCEPT !.handlers = @ (-) SetToBag({h})]
    /\ UNCHANGED <<panel, reply, normalized, extraction, builtin, probe>>

\* onUpdated, after its query: notifyTabChange() when the tab updated is
\* the active one.
IsActiveResume(h) ==
    /\ h.pc = "isActiveGot"
    /\ notifier' = [notifier EXCEPT
                      !.handlers =
                         IF h.answer # NoActiveTab /\ h.answer.id = h.tabId
                         THEN (@ (-) SetToBag({h})) (+)
                              SetToBag({Handler("query", 0)})
                         ELSE @ (-) SetToBag({h})]
    /\ UNCHANGED <<panel, reply, normalized, extraction, builtin, probe>>

\* notifyTabChange after its await: currentTabUrl = tab.url and the
\* TAB_CHANGED message, when the url is not currentTabUrl.
NotifyResume(h) ==
    /\ h.pc = "queryGot"
    /\ notifier' =
         IF h.answer # NoActiveTab
            /\ Differs(h.answer.url, notifier.currentTabUrl)
         THEN [notifier EXCEPT
                 !.handlers = @ (-) SetToBag({h}),
                 !.currentTabUrl = h.answer.url,
                 !.sent = Append(@, h.answer.url)]
         ELSE [notifier EXCEPT
                 !.handlers = @ (-) SetToBag({h}),
                 !.suppressed = IF h.answer # NoActiveTab THEN @ + 1 ELSE @]
    /\ UNCHANGED <<panel, reply, normalized, extraction, builtin, probe>>

NotifierNext ==
    \/ \E t \in TabIds : TabActivated(t)
    \/ \E t \in TabIds, u \in URLs : TabNavigated(t, u)
    \/ \E t \in TabIds : TabCompleted(t)
    \/ \E h \in BagToSet(notifier.handlers) : QueryAnswered(h)
    \/ \E h \in BagToSet(notifier.handlers) : QueryRejects(h)
    \/ \E h \in BagToSet(notifier.handlers) : IsActiveResume(h)
    \/ \E h \in BagToSet(notifier.handlers) : NotifyResume(h)

NotifierSpec == NotifierInit /\ [][NotifierNext]_vars

-----------------------------------------------------------------------------
(* callChromeBuiltInAI *)

\* The two generations of the on-device interface; a session is named after
\* the one that created it.
Interfaces == {"LanguageModel", "ai.languageModel"}

\* What availability() of the newer and capabilities().available of the
\* legacy interface can say.
Availabilities == {"available", "downloadable", "downloading", "unavailable"}
LegacyAvailabilities == {"readily", "after-download", "no"}

\* What session.prompt can resolve with.
PromptTexts ==
    {"{\"bullets\": [\"First point about X is long\"]}",
     "- First point about X\n- Second point about Y",
     "no"}

\* Mutant: the failure without the way out of it.
MutNotAvailable == "Chrome Built-in AI not available."

NotAvailable ==
    "Chrome Built-in AI not available. Requires Chrome 138+ on a supported device, or enable chrome://flags/#prompt-api-for-gemini-nano on Chrome 127-137."

\* A call of callChromeBuiltInAI(content) in a browser that has (present)
\* some of the interfaces: where it is (pc), its locals (session, "" while
\* undefined; availability, capabilities.available and text, "" before
\* they are assigned), the interfaces whose failure was warned about, and
\* for the properties the sessions created, the number of prompts and of
\* destroy calls on each, and whether a prompt was issued on a session
\* already destroyed.
BuiltInCall(present, content) ==
    [pc |-> "called", present |-> present, content |-> content,
     session |-> "", availability |-> "", available |-> "", text |-> "",
     warned |-> {},
     created |-> {}, prompts |-> [i \in Interfaces |-> 0],
     destroys |-> [i \in Interfaces |-> 0], promptedReleased |-> FALSE,
     outcome |-> "", result |-> Null, message |-> ""]

BuiltInInit ==
    /\ PanelInit /\ summaryCache = EmptyMap
    /\ reply = NoReply
    /\ normalized = NotCalled
    /\ extraction = NoExtraction
    /\ probe = NoProbe
    /\ notifier = NoNotifier
    /\ builtin \in {BuiltInCall(present, content) :
                       present \in SUBSET Interfaces,
                       content \in {PageText(u) : u \in URLs} \cup Texts}

BuiltInThrows(b, message) ==
    [b EXCEPT !.pc = "done", !.outcome = "thrown", !.message = message]

\* session = await ....create(): the session exists from here on.
SessionCreated(b, interface) ==
    [b EXCEPT !.session = interface, !.created = @ \cup {interface}]

\* session.prompt(...) is called.
PromptIssued(b) ==
    [b EXCEPT !.pc = "prompt", !.prompts[b.session] = @ + 1,
              !.promptedReleased = @ \/ b.destroys[b.session] > 0]

\* Mutant: the finally block left out.
MutDestroySession(b) == b

\* finally { session.destroy?.() }
DestroySession(b) == [b EXCEPT !.destroys[b.session] = @ + 1]

\* From "if (!session && ... self.ai?.languageModel)" on, no await having
\* been reached yet: the legacy interface is asked, or the function throws.
TryLegacy(b) ==
    IF "ai.languageModel" \in b.present
    THEN [b EXCEPT !.pc = "capabilities"]
    ELSE BuiltInThrows(b, NotAvailable)

\* callChromeBuiltInAI(content) up to its first await.
StartBuiltIn ==
    /\ builtin.pc = "called"
    /\ builtin' = IF "LanguageModel" \in builtin.present
                  THEN [builtin EXCEPT !.pc = "availability"]
                  ELSE TryLegacy(builtin)
    /\ UNCHANGED <<panel, reply, normalized, extraction, probe, notifier>>

\* self.LanguageModel.availability() resolves.
AvailabilityResume ==
    /\ builtin.pc = "availability"
    /\ \E availability \in Availabilities :
         builtin' = IF availability \in {"available", "downloadable"}
                    THEN [builtin EXCEPT !.pc = "create",
                                         !.availability = availability]
                    ELSE TryLegacy([builtin EXCEPT
                                      !.availability = availability])
    /\ UNCHANGED <<panel, reply, normalized, extraction, probe, notifier>>

\* self.LanguageModel.create() resolves: the prompt is issued.
CreateResume ==
    /\ builtin.pc = "create"
    /\ builtin' = PromptIssued(SessionCreated(builtin, "LanguageModel"))
    /\ UNCHANGED <<panel, reply, normalized, extraction, probe, notifier>>

\* availability() or create() of the newer interface rejects: catch (err),
\* console.warn, and on to the legacy interface.
NewInterfaceFails ==
    /\ builtin.pc \in {"availability", "create"}
    /\ builtin' = TryLegacy([builtin EXCEPT
                               !.warned = @ \cup {"LanguageModel"}])
    /\ UNCHANGED <<panel, reply, normalized, extraction, probe, notifier>>

\* self.ai.languageModel.capabilities() resolves.
CapabilitiesResume ==
    /\ builtin.pc = "capabilities"
    /\ \E available \in LegacyAvailabilities :
         builtin' = IF available \in {"readily", "after-download"}
                    THEN [builtin EXCEPT !.pc = "legacyCreate",
                                         !.available = available]
                    ELSE BuiltInThrows([builtin EXCEPT
                                          !.available = available],
                                       NotAvailable)
    /\ UNCHANGED <<panel, reply, normalized, extraction, probe, notifier>>

\* self.ai.languageModel.create(...) resolves: the prompt is issued.
LegacyCreateResume ==
    /\ builtin.pc = "legacyCreate"
    /\ builtin' = PromptIssued(SessionCreated(builtin, "ai.languageModel"))
    /\ UNCHANGED <<panel, reply, normalized, extraction, probe, notifier>>

\* capabilities() or create() of the legacy interface rejects: catch (err),
\* console.warn, and no session.
LegacyInterfaceFails ==
    /\ builtin.pc \in {"capabilities", "legacyCreate"}
    /\ builtin' = BuiltInThrows([builtin EXCEPT
                                   !.warned = @ \cup {"ai.languageModel"}],
                                NotAvailable)
    /\ UNCHANGED <<panel, reply, normalized, extraction, probe, notifier>>

\* session.prompt resolves: return parseAIResponse(text), through finally.
PromptResume ==
    /\ builtin.pc = "prompt"
    /\ \E text \in PromptTexts :
         LET parsed == parseAIResponse(Chars(text))
             after == DestroySession([builtin EXCEPT !.text = text])
         IN  builtin' =
               IF parsed.outcome = "returned"
               THEN [after EXCEPT !.pc = "done", !.outcome = "returned",
                                  !.result = parsed.value]
               ELSE BuiltInThrows(after, parsed.message)
    /\ UNCHANGED <<panel, reply, normalized, extraction, probe, notifier>>

\* session.prompt rejects: through finally, and the error goes on.
PromptRejects ==
    /\ builtin.pc = "prompt"
    /\ builtin' = BuiltInThrows(DestroySession(builtin),
                                "The model could not answer")
    /\ UNCHANGED <<panel, reply, normalized, extraction, probe, notifier>>

BuiltInNext ==
    \/ StartBuiltIn
    \/ AvailabilityResume
    \/ CreateResume
    \/ NewInterfaceFails
    \/ CapabilitiesResume
    \/ LegacyCreateResume
    \/ LegacyInterfaceFails
    \/ PromptResume
    \/ PromptRejects

BuiltInSpec == BuiltInInit /\ [][BuiltInNext]_vars

-----------------------------------------------------------------------------
(* App: the follow-up chat *)

\* Chat messages sent in one behaviour.
MaxChats == 1

\* What the input field can hold when Send is pressed.
ChatInputs == {" q1 ", "  "}

\* What sendChatMessage resolves with: { content } or { error }.
SendChatOutcomes ==
    {[content |-> "answer", error |-> ""],
     [content |-> "", error |-> "chat failed"]}

\* { role, content, isError }; about is not in the code: it records the
\* currentTab of the render whose handleSendChat produced the turn.
Turn(role, content, isError, about) ==
    [role |-> role, content |-> content, isError |-> isError,
     about |-> about]

\* What the renders after a step of the summaries do to the chat:
\* useEffect(() => { setChatMessages([]); setPageContent(null) },
\* [currentTab?.url]), and in handleSummarize, after a getSummary that
\* returned no error, sendMessage({ type: 'FETCH_PAGE_CONTENT', url }).
ChatFollows ==
    LET changed == currentTab'.url # currentTab.url
        fetches == /\ completed'.pc = "done"
                   /\ completed'.handler = "summarize"
                   /\ ~IsError(completed'.retval)
    IN  /\ chatMessages' = IF changed THEN <<>> ELSE chatMessages
        /\ pageContent' = IF changed THEN "" ELSE pageContent
        /\ contentPending' =
              IF fetches THEN contentPending (+) SetToBag({completed'.url})
              ELSE contentPending
        /\ UNCHANGED <<chatLoading, chatPending, nchat>>

\* The page of the panel is gone, and its callbacks with it.
ChatRemount ==
    /\ chatMessages' = <<>>
    /\ pageContent' = ""
    /\ chatLoading' = FALSE
    /\ chatPending' = NoSend
    /\ contentPending' = EmptyBag
    /\ UNCHANGED nchat

\* The callback of FETCH_PAGE_CONTENT for url u: response.content, or a
\* response without content.
PageContentResponse(u) ==
    /\ BagIn(u, contentPending)
    /\ contentPending' = contentPending (-) SetToBag({u})
    /\ \E c \in FetchOutcomes(u) :
         pageContent' = IF c # "" THEN c ELSE pageContent
    /\ completed' = NoCall
    /\ UNCHANGED <<summaries, loadingSummary, summaryCache, settings,
                   currentTab, summary, error, isFirstLoad, nreq, storageQ,
                   pending, activeTabPending>>
    /\ UNCHANGED <<chatMessages, chatLoading, chatPending, nchat>>
    /\ UNCHANGED callees

\* handleSendChat with input in the field, up to the await of
\* sendChatMessage; the chat section is rendered with the summary.
handleSendChat(input) ==
    /\ showSummary
    /\ Trim(Chars(input)) # <<>> /\ ~chatLoading
    /\ nchat < MaxChats
    /\ nchat' = nchat + 1
    /\ LET userMessage == Str(Trim(Chars(input)))
       IN  /\ chatMessages' = Append(chatMessages,
                                Turn("user", userMessage, FALSE, currentTab))
           /\ chatPending' = [pc |-> "sendChatMessage",
                              userMessage |-> userMessage,
                              pageContent |-> pageContent,
                              bullets |-> summary.bullets,
                              history |-> chatMessages,
                              about |-> currentTab]
    /\ chatLoading' = TRUE
    /\ completed' = NoCall
    /\ UNCHANGED <<summaries, loadingSummary, summaryCache, settings,
                   currentTab, summary, error, isFirstLoad, nreq, storageQ,
                   pending, activeTabPending>>
    /\ UNCHANGED <<pageContent, contentPending>>
    /\ UNCHANGED callees

\* setChatMessages(prev => [...prev, { role: 'assistant', ... }])
Answered(messages, turn) == Append(messages, turn)

\* Reply to "result = await sendChatMessage(...)".
SendChatResume ==
    /\ chatPending.pc = "sendChatMessage"
    /\ \E result \in SendChatOutcomes :
         chatMessages' = Answered(chatMessages,
             IF result.error # ""
             THEN Turn("assistant", "Error: " \o result.error, TRUE,
                       chatPending.about)
             ELSE Turn("assistant", result.content, FALSE,
                       chatPending.about))
    /\ chatLoading' = FALSE
    /\ chatPending' = NoSend
    /\ completed' = NoCall
    /\ UNCHANGED <<summaries, loadingSummary, summaryCache, settings,
                   currentTab, summary, error, isFirstLoad, nreq, storageQ,
                   pending, activeTabPending>>
    /\ UNCHANGED <<pageContent, contentPending, nchat>>
    /\ UNCHANGED callees

\* The panel with its chat.
ChatNext ==
    \/ GetActiveTabResponse /\ ChatFollows
    \/ \E u \in URLs : TabChanged(u) /\ ChatFollows
    \/ \E mode \in Modes, u \in URLs, text \in Texts :
         handleContextMenuSummarize(mode, u, text) /\ ChatFollows
    \/ ClickTryAgain /\ ChatFollows
    \/ ClickBulletify /\ ChatFollows
    \/ ClickRegenerate /\ ChatFollows
    \/ \E s \in SaveChoices : handleSave(s) /\ ChatFollows
    \/ MountLoadResume /\ ChatFollows
    \/ Remount /\ ChatRemount
    \/ LookupResume /\ ChatFollows
    \/ SettingsResume /\ ChatFollows
    \/ PersistReadResume /\ ChatFollows
    \/ PersistWriteResume /\ ChatFollows
    \/ TabChangeResume /\ ChatFollows
    \/ \E task \in BagToSet(pending) :
         \/ FetchResume(task) /\ ChatFollows
         \/ ProviderThrow(task) /\ ChatFollows
         \/ ProviderResume(task) /\ ChatFollows
    \/ \E u \in URLs : PageContentResponse(u)
    \/ \E input \in ChatInputs : handleSendChat(input)
    \/ SendChatResume

ChatSpec == Init /\ [][ChatNext]_vars

-----------------------------------------------------------------------------
(* Properties *)

\* The getSummary calls in flight, and with them the call that has just
\* returned.
Waiting == {storageQ[i] : i \in DOMAIN storageQ} \cup BagToSet(pending)
Calls == {task \in Waiting : task.handler \in {"summarize", "context"}}
CallsAndLast == Calls \cup {completed}

\* How many calls are on the slow path for cache key k.
SlowCount(k) ==
    Cardinality({i \in DOMAIN storageQ :
                   /\ storageQ[i].pc \in SlowPcs
                   /\ cacheKey(storageQ[i].url, storageQ[i].rawText) = k})
    + BagCardinality([task \in {x \in BagToSet(pending) :
                                  /\ x.pc \in SlowPcs
                                  /\ cacheKey(x.url, x.rawText) = k}
                      |-> pending[task]])

Keys == {cacheKey(u, r) : u \in URLs, r \in Texts \cup {""}}

\* C1: getSummary never rejects to its caller: whatever stage fails, the
\* call ends by returning a value.
C1_NeverRejects == completed.pc # "rejected"

\* C2: a call with forceRefresh = false and no raw text that finds an entry
\* for its locator (in memory or in durable storage) when it is made never
\* enters the loading state, never fetches and never calls a provider, and
\* what it returns is that entry.
C2_FastPath ==
    \A task \in CallsAndLast :
        (~task.forceRefresh /\ task.rawText = "" /\ task.hitEntry # Null) =>
            /\ task.pc \notin SlowPcs
            /\ ~task.enteredSlow
            /\ ~task.calledProvider
            /\ ~task.wroteMem /\ ~task.wroteDur
            /\ task.pc = "done" =>
                 /\ task.retval = task.hitEntry
                 /\ task.exit \in {"memory-hit", "durable-hit"}

C2_Witness ==
    /\ completed.pc = "done"
    /\ completed.exit = "durable-hit"
    /\ ~completed.forceRefresh
    /\ completed.rawText = ""
    /\ completed.retval # Null
    /\ completed.retval = completed.hitEntry
    /\ summary = completed.retval

\* C3: a forced call for a locator that already has an entry, when it
\* returns a result, has called the provider, and the entry stored for the
\* locator in memory and in durable storage is then that result.
C3_ForcedRefresh ==
    (/\ completed.pc = "done"
     /\ completed.forceRefresh
     /\ completed.rawText = ""
     /\ completed.hitEntry # Null
     /\ ~IsError(completed.retval)) =>
        /\ completed.calledProvider
        /\ Lookup(summaries, EmptyMap, completed.url) = completed.retval
        /\ Lookup(EmptyMap, summaryCache, completed.url) = completed.retval

\* C4: when a call without raw text has produced and returned result R for
\* locator K, a lookup of K gives R, from the in-process layer and, with
\* the in-process layer empty, from durable storage.
C4_RoundTrip ==
    (/\ completed.pc = "done"
     /\ completed.exit = "ok"
     /\ completed.rawText = ""
     /\ ~IsError(completed.retval)) =>
        /\ Lookup(summaries, summaryCache, completed.url) = completed.retval
        /\ Lookup(EmptyMap, summaryCache, completed.url) = completed.retval

\* C5: durable storage never holds a selection key, and a call with raw
\* text never reads or writes summaryCache for its write-through.
C5_SelectionNotDurable ==
    /\ DOMAIN summaryCache \subseteq URLs
    /\ \A task \in CallsAndLast :
         task.rawText # "" =>
            /\ ~task.wroteDur
            /\ task.pc \notin {"persistRead", "persistWrite"}

C5_Witness ==
    /\ completed.pc = "done"
    /\ completed.exit = "ok"
    /\ completed.rawText # ""
    /\ completed.wroteMem
    /\ cacheKey(completed.url, completed.rawText) \in DOMAIN summaries
    /\ completed.url \in DOMAIN summaryCache

\* C6: no provider is called by a call whose settings name a hosted
\* provider without an apiKey, nor by a call whose content is empty; such a
\* call returns { error } and nothing else.
C6_FailFast ==
    \A task \in CallsAndLast :
        LET noKey == /\ task.settings.aiProvider \notin {"", "chrome-builtin"}
                     /\ task.settings.apiKey = ""
        IN /\ task.calledProvider => (~noKey /\ task.content # "")
           /\ task.pc \in {"provider", "persistRead", "persistWrite"} =>
                 task.calledProvider
           /\ (task.pc \in {"fetch", "provider"}) => ~noKey
           /\ (task.pc = "done" /\ task.exit \in {"no-credential", "no-content"}) =>
                 /\ ~task.calledProvider
                 /\ ~task.wroteMem
                 /\ task.retval.bullets = Undefined
                 /\ task.retval.error # ""
           /\ (task.pc = "done" /\ task.exit = "no-credential") => noKey
           /\ (task.pc = "done" /\ task.exit = "no-content") => task.content = ""
           /\ (task.pc = "done" /\ task.enteredSlow /\ noKey) =>
                 task.exit \in {"no-credential", "catch"}

C6_Witness ==
    /\ completed.pc = "done"
    /\ completed.exit = "no-credential"
    /\ completed.settings.aiProvider = "claude"
    /\ completed.settings.apiKey = ""
    /\ ~completed.calledProvider
    /\ error = "Please configure your API key in settings."

\* C7: at most one call is on the slow path for any one cache key.
C7_AtMostOneInFlight == \A k \in Keys : SlowCount(k) <= 1

\* C8: the result of a call made for a locator that is no longer the
\* current tab's is not displayed, neither as summary nor as error.
C8_StaleResultNotDisplayed ==
    (completed.pc = "done" /\ completed.url # currentTab.url) =>
        /\ summary # completed.retval
        /\ ~(IsError(completed.retval) /\ error = completed.retval.error)

\* C9: a key of durable storage stays in durable storage.
C9_DurableNeverLost ==
    [][\A k \in DOMAIN summaryCache : k \in DOMAIN summaryCache']_vars

\* C10: a call that returns an error result has written neither cache.
C10_ErrorLeavesCachesUnchanged ==
    (completed.pc = "done" /\ IsError(completed.retval)) =>
        (~completed.wroteMem /\ ~completed.wroteDur)

\* C11: every result getSummary returns, and every value in the in-process
\* cache and in durable storage, has exactly one of the fields bullets and
\* error.
ExactlyOneField(r) == (r.bullets # Undefined) # (r.error # "")
C11_ExactlyOneOfBulletsError ==
    /\ completed.pc = "done" => ExactlyOneField(completed.retval)
    /\ \A k \in DOMAIN summaries : ExactlyOneField(summaries[k])
    /\ \A k \in DOMAIN summaryCache : ExactlyOneField(summaryCache[k])

\* A call of parseAIResponse has returned a result.
ParseReturned == normalized # NotCalled /\ normalized.outcome = "returned"

\* C12: parseAIResponse returns a result only with at least one bullet; a
\* reply that gives no bullet at any stage makes it throw.
C12_NeverEmptyList == ParseReturned => normalized.value.bullets # <<>>

\* The string elements of a bullets array, trimmed, those left empty
\* dropped, in the order written.
TrimString(str) == Str(Trim(Chars(str)))
ExpectedBullets(elems) ==
    LET strings == SelectSeq(elems,
                             LAMBDA e : e.t = "str" /\ TrimString(e.s) # "")
    IN  [i \in DOMAIN strings |-> TrimString(strings[i].s)]

\* C13: for a reply that is a well-formed JSON object with a bullets array,
\* parseAIResponse returns exactly the string elements of the array, trimmed,
\* without the empty and the non-string ones, in their order.
C13_WellFormedBullets ==
    (reply.kind = "json" /\ reply.form \in {"strict", "withError"}
     /\ normalized # NotCalled)
    => /\ normalized.outcome = "returned"
       /\ normalized.value.bullets = ExpectedBullets(reply.elems)

C13_Witness ==
    /\ reply.kind = "json" /\ reply.form = "strict" /\ Len(reply.elems) = 4
    /\ ParseReturned /\ normalized.stage = 1
    /\ normalized.value.bullets = <<"a", "b">>

\* C14: no bullet that parseAIResponse returns, from whichever stage, is
\* empty or has whitespace at either end.
C14_BulletsTrimmedNonEmpty ==
    ParseReturned =>
        \A i \in DOMAIN normalized.value.bullets :
            /\ normalized.value.bullets[i] # ""
            /\ TrimString(normalized.value.bullets[i])
                 = normalized.value.bullets[i]

\* C15: a reply whose JSON is malformed only by a comma after the last
\* element (written on one line or over several) gives the same list of
\* bullets as the same object written well formed.
C15_RepairEquivalence ==
    (reply.kind = "json" /\ reply.form \in {"trailing", "trailingLines"}
     /\ normalized # NotCalled)
    => normalized.value.bullets
         = parseAIResponse(Chars(Render(reply.elems, "strict"))).value.bullets

\* The lines with a marker whose text is longer than 10 characters, in order.
ExpectedMarked(lines) ==
    LET kept == SelectSeq(lines, LAMBDA l : l.marker # ""
                                            /\ Len(TrimString(l.rest)) > 10)
    IN  [i \in DOMAIN kept |-> TrimString(kept[i].rest)]

\* C16: for a reply without a brace span, or whose JSON gives no bullet, and
\* with marker lines, parseAIResponse returns the text of each marker line
\* that is longer than 10 characters, in order, and nothing else.
C16_MarkerLines ==
    (reply.kind = "lines" /\ normalized # NotCalled
     /\ ExpectedMarked(reply.lines) # <<>>)
    => /\ normalized.outcome = "returned"
       /\ normalized.value.bullets = ExpectedMarked(reply.lines)

\* C17: for a reply without braces and without marker lines, parseAIResponse
\* returns the sentences longer than 20 characters, trimmed and in order,
\* and not more than the first 10 of them.
C17_SentenceSplit ==
    (reply.kind = "prose" /\ normalized # NotCalled /\ reply.long > 0)
    => /\ normalized.outcome = "returned"
       /\ Len(normalized.value.bullets) <= 10
       /\ normalized.value.bullets
            = [i \in 1..(IF reply.long > 10 THEN 10 ELSE reply.long) |->
                 LongSentence(i)]
       /\ \A i \in DOMAIN normalized.value.bullets :
            Len(normalized.value.bullets[i]) > 20

C17_Witness ==
    /\ reply.kind = "prose" /\ reply.long = 12 /\ reply.shortAt = 3
    /\ ParseReturned /\ normalized.stage = 5
    /\ Len(normalized.value.bullets) = 10
    /\ normalized.value.bullets[3] = LongSentence(3)

\* C18: fetchPageContent for a video URL always gives some text: whatever
\* happens on the way it returns, and never throws.
C18_VideoAlwaysSucceeds ==
    extraction.pc = "done"
    => extraction.outcome = "returned" /\ extraction.content # ""

\* C19: whenever the transcript was not got (no matching tab, or a probe
\* without a result or with success false), the content returned is the
\* title, channel and description text and holds the note that the
\* transcript could not be extracted.
C19_FallbackHasNote ==
    (extraction.pc = "done" /\ extraction.outcome = "returned"
     /\ extraction.path \in {"noTab", "probeFailed"})
    => /\ Includes(Chars(extraction.content), Chars("\nDescription:\n"))
       /\ Includes(Chars(extraction.content),
                   Chars("Could not extract transcript"))

\* C20: every session callChromeBuiltInAI creates is destroyed exactly once
\* by the time the call ends, whether the prompt and the parse succeed or
\* fail, never more than once, and no prompt is issued on a destroyed
\* session.
C20_SessionReleasedOnce ==
    /\ ~builtin.promptedReleased
    /\ \A i \in Interfaces :
         /\ builtin.destroys[i] <= 1
         /\ builtin.destroys[i] > 0 => i \in builtin.created
         /\ (builtin.pc = "done" /\ i \in builtin.created)
              => builtin.destroys[i] = 1

C20_Witness ==
    /\ builtin.pc = "done" /\ builtin.outcome = "thrown"
    /\ builtin.created = {"ai.languageModel"}
    /\ builtin.prompts["ai.languageModel"] = 1
    /\ builtin.destroys["ai.languageModel"] = 1
    /\ builtin.message = "Could not parse AI response"

\* C21: the transcript holds no turn of content that was active before:
\* every turn in chatMessages was produced by a handleSendChat whose
\* currentTab (url, and page or selection) is the present one, whether
\* its answer came before or after a change.
C21_TranscriptOfActiveContent ==
    \A i \in DOMAIN chatMessages : chatMessages[i].about = currentTab

\* C22: whatever fetchPageContent returns, for a page, from a transcript or
\* from a description, is at most 30,000 characters long and is the text
\* it had built, whole when that is short enough and else its first 30,000
\* characters; a text that is too long is returned, not thrown.
C22_ContentCapped ==
    (extraction.pc = "done" /\ extraction.outcome = "returned") =>
        /\ Len(extraction.content) <= ContentLimit
        /\ extraction.content =
              IF Len(extraction.full) <= ContentLimit THEN extraction.full
              ELSE SubSeq(extraction.full, 1, ContentLimit)

C22_Witness ==
    /\ extraction.pc = "done" /\ extraction.outcome = "returned"
    /\ extraction.path = "page"
    /\ Len(extraction.full) > ContentLimit
    /\ Len(extraction.content) = ContentLimit

\* The texts inside a node, and whether an article is among the nodes or
\* inside them.
RECURSIVE TextsIn(_)
TextsIn(node) ==
    IF node.tag = "" THEN {node.text}
    ELSE UNION {TextsIn(node.kids[i]) : i \in DOMAIN node.kids}
RECURSIVE HasArticle(_)
HasArticle(nodes) ==
    \E i \in DOMAIN nodes :
        nodes[i].tag = "article" \/ HasArticle(nodes[i].kids)

\* The texts that stand inside a nav or script element next to which,
\* under the same parent, there is an article (each text of a document of
\* Pages stands at one place only).
RECURSIVE BesideArticle(_)
BesideArticle(nodes) ==
    UNION {IF /\ nodes[i].tag \in {"nav", "script"}
              /\ \E j \in DOMAIN nodes \ {i} : nodes[j].tag = "article"
           THEN TextsIn(nodes[i])
           ELSE BesideArticle(nodes[i].kids) : i \in DOMAIN nodes}

\* C23: for a document with an article in it, the content returned holds
\* no text that stands only in a nav or script element that is a sibling
\* of an article.
C23_NoSiblingBlockText ==
    (/\ extraction.pc = "done" /\ extraction.outcome = "returned"
     /\ extraction.path = "page"
     /\ HasArticle(TopLevel(extraction.page))) =>
        \A x \in BesideArticle(TopLevel(extraction.page)) :
            ~Includes(Chars(extraction.content), Chars(x))

\* C24: callChromeBuiltInAI asks the newer interface first, where the
\* browser has it; the legacy interface is asked only when the newer one is
\* absent, said it is not available, or threw, and so gave no session; at
\* most one session is created and at most one prompt issued, on it; and a
\* call that ends with no session has thrown the error that names the
\* Chrome version and the flag to enable, having issued no prompt, while
\* that error is never thrown by a call that had a session.
C24_NewerThenLegacy ==
    LET newer == "LanguageModel"
        legacy == "ai.languageModel"
        newerAsked == \/ builtin.pc \in {"availability", "create"}
                      \/ builtin.availability # ""
                      \/ newer \in builtin.warned \cup builtin.created
        legacyAsked == \/ builtin.pc \in {"capabilities", "legacyCreate"}
                       \/ builtin.available # ""
                       \/ legacy \in builtin.warned \cup builtin.created
        newerGaveNone == \/ newer \notin builtin.present
                         \/ newer \in builtin.warned
                         \/ builtin.availability
                               \in Availabilities \ {"available", "downloadable"}
        hint == "enable chrome://flags/#prompt-api-for-gemini-nano"
    IN  /\ (builtin.pc # "called" /\ newer \in builtin.present) => newerAsked
        /\ builtin.pc \in {"availability", "create"} => ~legacyAsked
        /\ legacyAsked => (newerGaveNone /\ newer \notin builtin.created)
        /\ Cardinality(builtin.created) <= 1
        /\ \A i \in Interfaces :
             /\ builtin.prompts[i] <= 1
             /\ builtin.prompts[i] > 0 => i \in builtin.created
        /\ (builtin.pc = "done" /\ builtin.created = {})
             => /\ builtin.outcome = "thrown"
                /\ Includes(Chars(builtin.message), Chars("Requires Chrome 138+"))
                /\ Includes(Chars(builtin.message), Chars(hint))
                /\ \A i \in Interfaces : builtin.prompts[i] = 0
        /\ (builtin.pc = "done" /\ builtin.created # {})
             => ~Includes(Chars(builtin.message), Chars("not available"))

C24_Witness ==
    /\ builtin.pc = "done" /\ builtin.outcome = "thrown"
    /\ builtin.present = Interfaces
    /\ builtin.availability = "unavailable" /\ builtin.available = "no"
    /\ builtin.created = {} /\ builtin.warned = {}
    /\ builtin.message = NotAvailable

\* C25: a getSummary that is neither forced nor given a text returns the
\* in-process entry of its key when there is one, without reading or
\* changing anything; it reads durable storage only when the in-process
\* cache has no entry for the key, and reads what durable storage holds
\* under that key; and when that read finds an entry, the
\* call returns it, the in-process cache gets it under the same key with
\* every other key as before, and durable storage is as before.
C25_LookupOrderAndPromotion ==
    [][ LET call == completed'
            key == cacheKey(call.url, call.rawText)
            asked == storageQ'[Len(storageQ')]
            askedKey == cacheKey(asked.url, asked.rawText)
        IN  /\ (call.pc = "done" /\ call.exit = "memory-hit")
                 => /\ CacheLookupAllowed(call.forceRefresh, call.rawText)
                    /\ key \in DOMAIN summaries
                    /\ call.retval = summaries[key]
                    /\ call.retval = call.hitEntry
                    /\ UNCHANGED <<summaries, summaryCache, storageQ>>
            /\ (/\ storageQ' # <<>>
                /\ storageQ' = Append(storageQ, asked)
                /\ asked.pc = "lookup")
                 => /\ CacheLookupAllowed(asked.forceRefresh, asked.rawText)
                    /\ askedKey \notin DOMAIN summaries
                    /\ DOMAIN asked.stored = DOMAIN summaryCache \cap {askedKey}
                    /\ \A k \in DOMAIN asked.stored :
                         asked.stored[k] = summaryCache[k]
            /\ (call.pc = "done" /\ call.exit = "durable-hit")
                 => /\ CacheLookupAllowed(call.forceRefresh, call.rawText)
                    /\ call.retval # Null
                    /\ call.retval = call.hitEntry
                    /\ key \in DOMAIN summaries'
                    /\ summaries'[key] = call.retval
                    /\ \A k \in DOMAIN summaries' \ {key} :
                         k \in DOMAIN summaries /\ summaries'[k] = summaries[k]
                    /\ DOMAIN summaries \subseteq DOMAIN summaries'
                    /\ UNCHANGED summaryCache
      ]_vars

\* A durable hit that was promoted: the entry is in neither cache view
\* before the read and in both after it.
C25_Witness ==
    /\ completed.pc = "done" /\ completed.exit = "durable-hit"
    /\ completed.url \in DOMAIN summaries
    /\ completed.url \in DOMAIN summaryCache
    /\ summaries[completed.url] = summaryCache[completed.url]

\* The texts of the segments that have one, trimmed, in the order of the
\* document, with one space between two of them.
RECURSIVE SpokenText(_)
SpokenText(items) ==
    IF items = <<>> THEN ""
    ELSE IF Head(items) = "" THEN SpokenText(Tail(items))
    ELSE LET rest == SelectSeq(Tail(items), LAMBDA x : x # "")
         IN  IF rest = <<>> THEN Str(Trim(Chars(Head(items))))
             ELSE Str(Trim(Chars(Head(items)))) \o " " \o SpokenText(rest)

C26_Structured ==
    /\ probe.clicks <= 1
    /\ probe.since <= WaitTimeout + Pause
    /\ probe.pc = "done" =>
         /\ probe.outcome = "returned"
         /\ probe.result.success <=> Len(probe.texts) > 0
         /\ probe.result.success =>
              /\ DOMAIN probe.result = {"success", "data"}
              /\ DOMAIN probe.result.data = {"title", "channel", "transcript"}
              /\ probe.result.data.transcript = SpokenText(probe.dom.items)
              /\ \E i \in DOMAIN probe.dom.items : probe.dom.items[i] # ""
         /\ ~probe.result.success =>
              /\ "error" \in DOMAIN probe.result
              /\ probe.result.error # ""

\* C26: extractTranscriptFromPage always ends, by returning a result and
\* never by throwing: success with title, channel and transcript exactly
\* when it collected at least one segment text, the transcript being the
\* trimmed segment texts of the document in order with single spaces
\* between them, and else success false with an error; the transcript
\* control is activated at most once, and the timers that run after it
\* take at most the timeout of the wait and one pause.
C26_ProbeEndsStructured ==
    [](C26_Structured) /\ <>(probe.pc = "done")

\* The control is activated, the segments come just before the timeout,
\* and the transcript is returned.
C26_Witness ==
    /\ probe.pc = "done" /\ probe.result.success
    /\ probe.clicks = 1
    /\ probe.since = WaitTimeout - 1 + Pause
    /\ probe.result.data.transcript = "first second"

\* C27: the notifier sends TAB_CHANGED only for an active tab whose url is
\* not currentTabUrl, and sets currentTabUrl to that url as it sends: so,
\* however the onActivated and onUpdated listeners and their tab queries
\* interleave, no two messages in a row carry the same url, and
\* currentTabUrl is the url of the last message sent (null before the
\* first).
C27_NoRepeatedNotification ==
    /\ [](/\ \A i \in 1..(Len(notifier.sent) - 1) :
               notifier.sent[i] # notifier.sent[i + 1]
          /\ notifier.currentTabUrl =
                IF notifier.sent = <<>> THEN ""
                ELSE notifier.sent[Len(notifier.sent)])
    /\ [][notifier'.sent # notifier.sent =>
            \E u \in URLs :
               /\ u # notifier.currentTabUrl
               /\ notifier'.sent = Append(notifier.sent, u)
               /\ notifier'.currentTabUrl = u]_notifier

\* Two messages were sent and a notification for the url already sent was
\* left out.
C27_Witness ==
    /\ Len(notifier.sent) = 2
    /\ notifier.suppressed > 0

\* A step in which handleSummarize calls getSummary: the call returns from
\* the in-process cache, or awaits its first storage read.
StartsSummarize ==
    \/ /\ completed'.pc = "done" /\ completed'.handler = "summarize"
       /\ completed'.exit = "memory-hit"
    /\ storageQ' # <<>>
       /\ storageQ' = Append(storageQ, storageQ'[Len(storageQ')])
       /\ storageQ'[Len(storageQ')].handler = "summarize"

\* A step in which TAB_CHANGED for another url is handled from the
\* in-process cache, with no handleTabChange in flight.
TabChangeServed ==
    /\ nreq' = nreq + 1
    /\ ~isFirstLoad'
    /\ currentTab' # currentTab
    /\ storageQ' = storageQ
    /\ completed' = NoCall
    /\ \A i \in DOMAIN storageQ : storageQ[i].pc # "tcLookup"

\* A step in which the last handleTabChange in flight gets the answer of
\* its storage read and sets the summary.
TabChangeHandled ==
    /\ storageQ # <<>>
    /\ Head(storageQ).pc = "tcLookup"
    /\ storageQ' = Tail(storageQ)
    /\ \A i \in DOMAIN storageQ' : storageQ'[i].pc # "tcLookup"

\* C28: once TAB_CHANGED or CONTEXT_MENU_SUMMARIZE has been handled
\* (isFirstLoad is false), a step that changes currentTab does not make
\* handleSummarize call getSummary; and when a tab change has been handled,
\* the summary of the panel is the cached summary of the url of the
\* current tab, from the in-process cache or else from durable storage, and
\* null when neither has one.
C28_NoAutoSummarizeAfterMessage ==
    [][ /\ (~isFirstLoad' /\ currentTab' # currentTab) => ~StartsSummarize
        /\ TabChangeServed
              => summary' = Lookup(summaries', summaryCache', currentTab'.url)
        /\ TabChangeHandled
              => summary' = Lookup(summaries', summaryCache', currentTab'.url)
      ]_vars

\* The getSummary calls that are on their slow path: past
\* setLoadingSummary(url) and not yet returned.
SlowInFlight ==
    {storageQ[i] : i \in {j \in DOMAIN storageQ : storageQ[j].pc \in SlowPcs}}
        \cup {t \in BagToSet(pending) : t.pc \in SlowPcs}

\* C29: loadingSummary is set exactly while some getSummary is on its slow
\* path: set whenever at least one is in flight, the return of one not
\* clearing it while another is still pending, and null when none is.
C29_LoadingWhileInFlight ==
    (loadingSummary # "") <=> (SlowInFlight # {})

\* C30: the chat context is of the active content: whenever pageContent is
\* not null it is the content fetched for the url of the current tab, so
\* the answer to a FETCH_PAGE_CONTENT sent for a url that is no longer the
\* current one is not stored.
C30_ContextOfCurrentTab ==
    pageContent # "" => pageContent = PageText(currentTab.url)

====
